---- MODULE Spec2Model ----
(***************************************************************************)
(* A model of the Endive proof kernel: the Object algebra, the buildability *)
(* checker, the helpers (Alias, Build, Functorial, Peano, Goal) and the     *)
(* Pipeline with its undo / breakpoint / rollback history.                  *)
(***************************************************************************)
EXTENDS Integers, Sequences, FiniteSets, TLC

(***************************************************************************)
(* Objects (core/objects.py).  An Object is a record                        *)
(*   [type, children, handle, data]                                         *)
(* repr_func only drives __repr__ and is left out.  Python's None is the    *)
(* value None; a Comp's handle, which is None, is NoHandle.                 *)
(***************************************************************************)
None == [type |-> "None"]

NoHandle == "<None>"

NoData == [k \in {} |-> ""]

Object(type, children, handle, data) ==
    [type |-> type, children |-> children, handle |-> handle, data |-> data]

TermD(name, arguments, data) == Object("Term", arguments, name, data)

Term(name, arguments) == TermD(name, arguments, NoData)

Rew(left, symbol, right) == Object("Rew", <<left, right>>, symbol, NoData)

Comp(left, right) == Object("Comp", <<left, right>>, NoHandle, NoData)

HoleD(name, data) == Object("Hole", << >>, name, data)

Hole(name) == HoleD(name, NoData)

identify(A, rule) == Rew(A, rule, A)

\* {**data, key: value}
with_data(data, key, value) ==
    [k \in (DOMAIN data) \cup {key} |-> IF k = key THEN value ELSE data[k]]

\* dataclasses.replace(obj, data={**obj.data, "result": msg})
with_result(obj, msg) ==
    Object(obj.type, obj.children, obj.handle, with_data(obj.data, "result", msg))

\* An __eq__ that compares data as well.
RECURSIVE ObjEq_with_data(_, _)
ObjEq_with_data(a, b) ==
    IF a = None \/ b = None THEN a = b
    ELSE /\ a.type = b.type
         /\ a.handle = b.handle
         /\ a.data = b.data
         /\ Len(a.children) = Len(b.children)
         /\ \A i \in 1..Len(a.children) : ObjEq_with_data(a.children[i], b.children[i])

\* Object.__eq__: type, handle and children, never data.  None is no Object
\* and equals only None.
RECURSIVE ObjEq(_, _)
ObjEq(a, b) ==
    IF a = None \/ b = None THEN a = b
    ELSE /\ a.type = b.type
         /\ a.handle = b.handle
         /\ Len(a.children) = Len(b.children)
         /\ \A i \in 1..Len(a.children) : ObjEq(a.children[i], b.children[i])

\* Object.__hash__: hash((type, handle, children)), the children hashed by
\* their own __hash__.  The hash of a tuple is modelled by the tuple.
RECURSIVE ObjHash(_)
ObjHash(a) ==
    <<a.type, a.handle, [i \in 1..Len(a.children) |-> ObjHash(a.children[i])]>>

\* obj in list
InList(obj, list) == \E i \in 1..Len(list) : ObjEq(list[i], obj)

(***************************************************************************)
(* core/utils.py                                                            *)
(***************************************************************************)
RECURSIVE get_hole_names(_)
get_hole_names(term) ==
    IF term.type = "Hole" THEN {term.handle}
    ELSE UNION {get_hole_names(term.children[i]) : i \in 1..Len(term.children)}

(***************************************************************************)
(* core/operations.py.  An assignment map is a function from hole names to  *)
(* Objects; a match result is [ok, asg], ok = FALSE standing for None.      *)
(***************************************************************************)
NoAsg == [k \in {} |-> None]

NoMatch == [ok |-> FALSE, asg |-> NoAsg]

Found(asg) == [ok |-> TRUE, asg |-> asg]

Bind(asg, name, obj) ==
    [k \in (DOMAIN asg) \cup {name} |-> IF k = name THEN obj ELSE asg[k]]

RECURSIVE rename_holes(_, _)
rename_holes(term, rename_map) ==
    IF term.type = "Hole"
    THEN IF term.handle \in DOMAIN rename_map /\ rename_map[term.handle] # term.handle
         THEN HoleD(rename_map[term.handle], term.data)
         ELSE term
    ELSE LET new_children ==
                 [i \in 1..Len(term.children) |->
                     rename_holes(term.children[i], rename_map)]
         IN  IF \E i \in 1..Len(term.children) :
                    ~ObjEq(new_children[i], term.children[i])
             THEN Object(term.type, new_children, term.handle, term.data)
             ELSE term

\* assignments.update(found): the bindings of `found` replace those already
\* in `assignments`.
dict_update(assignments, found) ==
    [k \in DOMAIN assignments \cup DOMAIN found |->
        IF k \in DOMAIN found THEN found[k] ELSE assignments[k]]

\* match_left starts every call with its own empty `assignments`, so the test
\* `B.handle in assignments` is never true where it is made.
RECURSIVE match_left(_, _)
RECURSIVE match_left_children(_, _, _, _)
match_left(A, B) ==
    IF B.type = "Hole"
    THEN IF B.handle \in DOMAIN NoAsg
         THEN IF ObjEq(NoAsg[B.handle], A) THEN Found(NoAsg) ELSE NoMatch
         ELSE Found(Bind(NoAsg, B.handle, A))
    ELSE IF A.type # B.type THEN NoMatch
    ELSE IF A.handle # B.handle \/ Len(A.children) # Len(B.children) THEN NoMatch
    ELSE match_left_children(A.children, B.children, 1, NoAsg)

match_left_children(As, Bs, i, assignments) ==
    IF i > Len(As) THEN Found(assignments)
    ELSE LET found == match_left(As[i], Bs[i])
         IN  IF found.ok
             THEN match_left_children(As, Bs, i + 1, dict_update(assignments, found.asg))
             ELSE NoMatch

RECURSIVE match(_, _, _)
RECURSIVE match_children(_, _, _, _)
match(A, B, assignments) ==
    IF B.type = "Hole"
    THEN IF B.handle \in DOMAIN assignments
         THEN IF ObjEq(assignments[B.handle], A) THEN Found(assignments) ELSE NoMatch
         ELSE Found(Bind(assignments, B.handle, A))
    ELSE IF A.type = "Hole"
    THEN IF A.handle \in DOMAIN assignments
         THEN IF ObjEq(assignments[A.handle], B) THEN Found(assignments) ELSE NoMatch
         ELSE Found(Bind(assignments, A.handle, B))
    ELSE IF A.type # B.type THEN NoMatch
    ELSE IF A.handle # B.handle \/ Len(A.children) # Len(B.children) THEN NoMatch
    ELSE match_children(A.children, B.children, 1, assignments)

match_children(As, Bs, i, assignments) ==
    IF i > Len(As) THEN Found(assignments)
    ELSE LET m == match(As[i], Bs[i], assignments)
         IN  IF m.ok THEN match_children(As, Bs, i + 1, m.asg) ELSE NoMatch

RECURSIVE apply(_, _)
apply(B, assignments) ==
    IF B.type = "Hole"
    THEN IF B.handle \in DOMAIN assignments THEN assignments[B.handle] ELSE B
    ELSE Object(B.type,
                [i \in 1..Len(B.children) |-> apply(B.children[i], assignments)],
                B.handle, B.data)

\* new_name = hole_name + "'" ... while new_name in reserved_names
RECURSIVE prime_until_unique(_, _)
prime_until_unique(new_name, reserved_names) ==
    IF new_name \in reserved_names
    THEN prime_until_unique(new_name \o "'", reserved_names)
    ELSE new_name

\* The loop over holes_B, taken in the order `order` (a sequence listing
\* holes_B): st = [map, reserved].
RECURSIVE rename_loop(_, _, _)
rename_loop(order, i, st) ==
    IF i > Len(order) THEN st
    ELSE LET hole_name == order[i]
         IN  IF hole_name \in st.reserved
             THEN LET new_name == prime_until_unique(hole_name \o "'", st.reserved)
                  IN  rename_loop(order, i + 1,
                          [map |-> Bind(st.map, hole_name, new_name),
                           reserved |-> st.reserved \cup {new_name}])
             ELSE rename_loop(order, i + 1, st)

\* The orders in which a set may be iterated.
Orders(S) ==
    {o \in [1..Cardinality(S) -> S] : \A i, j \in 1..Cardinality(S) : o[i] = o[j] => i = j}

\* compose_rews without the renaming of B's holes.
compose_rews_in_unrenamed(A, B, order) ==
    IF A.type # "Rew" \/ B.type # "Rew" \/ A.handle # B.handle THEN None
    ELSE LET composed(m) ==
                 IF m.ok
                 THEN Rew(apply(A.children[1], m.asg), A.handle, apply(B.children[2], m.asg))
                 ELSE None
         IN  composed(match(A.children[2], B.children[1], NoAsg))

compose_rews_in(A, B, order) ==
    IF A.type # "Rew" \/ B.type # "Rew" \/ A.handle # B.handle THEN None
    ELSE LET renamed(st) == IF DOMAIN st.map # {} THEN rename_holes(B, st.map) ELSE B
             composed(B_renamed, m) ==
                 IF m.ok
                 THEN Rew(apply(A.children[1], m.asg), A.handle,
                          apply(B_renamed.children[2], m.asg))
                 ELSE None
             matched(B_renamed) ==
                 composed(B_renamed, match(A.children[2], B_renamed.children[1], NoAsg))
         IN  matched(renamed(rename_loop(order, 1,
                 [map |-> [k \in {} |-> ""], reserved |-> get_hole_names(A)])))

\* compose_rews with the iteration order of holes_B fixed to one order.
compose_rews(A, B) ==
    IF A.type # "Rew" \/ B.type # "Rew" THEN None
    ELSE compose_rews_in(A, B, CHOOSE o \in Orders(get_hole_names(B)) : TRUE)

\* compose returning the identified composition whole, not its right side.
compose_whole(A, B) ==
    LET composed(attempt, attempt_identified) ==
            IF attempt # None THEN attempt ELSE attempt_identified
    IN  composed(compose_rews(A, B), compose_rews(identify(A, B.handle), B))

compose(A, B) ==
    LET composed(attempt, attempt_identified) ==
            IF attempt # None THEN attempt
            ELSE IF attempt_identified # None THEN attempt_identified.children[2]
            ELSE None
    IN  composed(compose_rews(A, B), compose_rews(identify(A, B.handle), B))

\* reduce_once from "if this is a composition, try to compose" on.
reduce_once_compose(term) ==
    IF term.type = "Comp"
    THEN LET attempted(attempt) == IF attempt # None THEN attempt ELSE term
         IN  attempted(compose(term.children[1], term.children[2]))
    ELSE term

RECURSIVE reduce_once(_)
reduce_once(term) ==
    LET rebuilt(result) == IF ~ObjEq(result, term) THEN result ELSE term
    IN  reduce_once_compose(
            rebuilt(Object(term.type,
                           [i \in 1..Len(term.children) |-> reduce_once(term.children[i])],
                           term.handle, term.data)))

\* reduce's default max_steps
MaxSteps == 100

\* The ValueError reduce raises when the bound is reached.
Raised == [type |-> "Raised"]

\* reduce returning its argument as it is.
reduce_from_unreduced(current, steps) == current

RECURSIVE reduce_from(_, _)
reduce_from(current, steps) ==
    IF steps = 0 THEN Raised
    ELSE LET stepped(reduced) ==
                 IF ObjEq(reduced, current) THEN current
                 ELSE reduce_from(reduced, steps - 1)
         IN  stepped(reduce_once(current))

reduce(term) == reduce_from(term, MaxSteps)

(***************************************************************************)
(* core/buildability.py.  A context is a function from rewriting symbols to *)
(* sequences of Objects.  check appends to the lists of the dict it copies, *)
(* and those lists are the caller's: a check result carries `ctx`, the      *)
(* caller's context as the call leaves it, besides (ok, mes); `raised`      *)
(* stands for reduce's ValueError propagating out of check.                 *)
(***************************************************************************)
NoContext == [k \in {} |-> << >>]

\* dict_add(dict(context), key, value): the copy shares the caller's lists.
dict_add(d, key, value) ==
    [k \in (DOMAIN d) \cup {key} |->
        IF k = key
        THEN (IF key \in DOMAIN d THEN Append(d[key], value) ELSE <<value>>)
        ELSE d[k]]

\* What the caller's dict holds once the callee has worked on a copy `after`
\* of it: the lists they share, as the callee left them.
shared_lists(context, after) == [k \in DOMAIN context |-> after[k]]

CheckResult(ok, mes, ctx, raised) == [ok |-> ok, mes |-> mes, ctx |-> ctx, raised |-> raised]

Message(obj, text) == [obj |-> obj, text |-> text]

RECURSIVE check(_, _, _)
\* check with the pattern of a rule added to the context as written.
check_unreduced(obj, rule, context) ==
    IF rule \in DOMAIN context /\ InList(obj, context[rule])
    THEN CheckResult(TRUE, Message(obj, " in context"), context, FALSE)
    ELSE IF obj.type = "Rew"
    THEN LET checked(inner) ==
                 CheckResult(inner.ok, inner.mes, shared_lists(context, inner.ctx),
                             inner.raised)
         IN  checked(check(obj.children[2], obj.handle,
                           dict_add(context, obj.handle, obj.children[1])))
    ELSE IF obj.type = "Comp"
    THEN LET right(r) ==
                 IF r.raised \/ ~r.ok THEN r
                 ELSE CheckResult(TRUE, Message(None, ""), r.ctx, FALSE)
             left(l) ==
                 IF l.raised \/ ~l.ok THEN l
                 ELSE right(check(obj.children[2], rule, l.ctx))
         IN  left(check(obj.children[1], rule, context))
    ELSE CheckResult(FALSE, Message(obj, " is not buildable"), context, FALSE)

check(obj, rule, context) ==
    IF rule \in DOMAIN context /\ InList(obj, context[rule])
    THEN CheckResult(TRUE, Message(obj, " in context"), context, FALSE)
    ELSE IF obj.type = "Rew"
    THEN LET checked(inner) ==
                 CheckResult(inner.ok, inner.mes, shared_lists(context, inner.ctx),
                             inner.raised)
             reduced(left) ==
                 IF left = Raised
                 THEN CheckResult(FALSE, Message(obj, "raised"), context, TRUE)
                 ELSE checked(check(obj.children[2], obj.handle,
                                    dict_add(context, obj.handle, left)))
         IN  reduced(reduce(obj.children[1]))
    ELSE IF obj.type = "Comp"
    THEN LET right(r) ==
                 IF r.raised \/ ~r.ok THEN r
                 ELSE CheckResult(TRUE, Message(None, ""), r.ctx, FALSE)
             left(l) ==
                 IF l.raised \/ ~l.ok THEN l
                 ELSE right(check(obj.children[2], rule, l.ctx))
         IN  left(check(obj.children[1], rule, context))
    ELSE CheckResult(FALSE, Message(obj, " is not buildable"), context, FALSE)

(***************************************************************************)
(* engine/helpers/utils/goal.py.  goal.py calls these as functions of an    *)
(* immutable GoalState that return the new state; the algorithms are those  *)
(* of the GoalState methods.  A Goal object, as goal.py reads it, holds the *)
(* reduced term as children[0] and the unreduced term and the rewriting     *)
(* symbol in data["unreduced"] and data["rew"].                             *)
(***************************************************************************)
GoalData(unreduced, rew) ==
    [k \in {"unreduced", "rew"} |-> IF k = "unreduced" THEN unreduced ELSE <<rew>>]

\* Goal(term, rew); Raised when reduce(term) raises.
Goal(term, rew) ==
    LET made(reduced_term) ==
            IF reduced_term = Raised THEN Raised
            ELSE Object("Goal", <<reduced_term>>, NoHandle, GoalData(term, rew))
    IN  made(reduce(term))

GoalRew(goal) == goal.data["rew"][1]

GoalState(goal, generic_context) == [goal |-> goal, generic_context |-> generic_context]

InitialGoalState == GoalState(None, [k \in {"=>"} |-> <<Term("True", << >>)>>])

RECURSIVE find_goal(_)
RECURSIVE find_goal_in(_, _)
find_goal(obj) ==
    IF obj.type = "Goal" THEN obj ELSE find_goal_in(obj.children, 1)

find_goal_in(children, i) ==
    IF i > Len(children) THEN None
    ELSE LET result == find_goal(children[i])
         IN  IF result # None THEN result ELSE find_goal_in(children, i + 1)

get_goal(state) == IF state.goal # None THEN find_goal(state.goal) ELSE None

RECURSIVE find_goals(_)
RECURSIVE find_goals_in(_, _)
find_goals(obj) ==
    IF obj.type = "Goal" THEN <<obj>> ELSE find_goals_in(obj.children, 1)

find_goals_in(children, i) ==
    IF i > Len(children) THEN << >>
    ELSE find_goals(children[i]) \o find_goals_in(children, i + 1)

get_goals(state) == IF state.goal # None THEN find_goals(state.goal) ELSE << >>

add_axiom_first(state, rule_symbol, term) ==
    GoalState(state.goal,
              [k \in (DOMAIN state.generic_context) \cup {rule_symbol} |->
                  IF k # rule_symbol THEN state.generic_context[k]
                  ELSE IF k \in DOMAIN state.generic_context
                  THEN <<term>> \o state.generic_context[k]
                  ELSE <<term>>])

add_axiom(state, rule_symbol, term) ==
    GoalState(state.goal, dict_add(state.generic_context, rule_symbol, term))

\* get_context(obj, context): NoneContext stands for the None it returns
\* when the walk ends on something that is no Goal.
NoneContext == [k \in {"<None>"} |-> << >>]

RECURSIVE walk_context(_, _)
walk_context(obj, context) ==
    IF obj.type = "Goal" THEN context
    ELSE IF obj.type = "Rew"
    THEN walk_context(obj.children[2], dict_add(context, obj.handle, obj.children[1]))
    ELSE IF obj.type = "Comp"
    THEN LET result_left == walk_context(obj.children[1], context)
         IN  IF result_left # NoneContext THEN result_left
             ELSE walk_context(obj.children[2], context)
    ELSE NoneContext

get_context_generic(state) == state.generic_context

get_context(state) ==
    LET merged(result) ==
            [k \in (DOMAIN result) \cup (DOMAIN state.generic_context) |->
                (IF k \in DOMAIN result THEN result[k] ELSE << >>)
                \o (IF k \in DOMAIN state.generic_context
                    THEN state.generic_context[k] ELSE << >>)]
        found(walked) == merged(IF walked = NoneContext THEN NoContext ELSE walked)
    IN  found(IF state.goal # None THEN walk_context(state.goal, NoContext)
              ELSE NoContext)

\* updated_goal: [obj, updated], the first Goal found replaced by new_goal.
RECURSIVE recursive_update(_, _)
RECURSIVE update_children(_, _, _)
recursive_update(new_goal, obj) ==
    IF obj.type = "Goal" THEN [obj |-> new_goal, updated |-> TRUE]
    ELSE LET r == update_children(new_goal, obj.children, 1)
         IN  IF r.updated
             THEN [obj |-> Object(obj.type, r.children, obj.handle, obj.data),
                   updated |-> TRUE]
             ELSE [obj |-> obj, updated |-> FALSE]

update_children(new_goal, children, i) ==
    IF i > Len(children) THEN [children |-> children, updated |-> FALSE]
    ELSE LET r == recursive_update(new_goal, children[i])
         IN  IF r.updated
             THEN [children |-> [j \in 1..Len(children) |->
                                    IF j = i THEN r.obj ELSE children[j]],
                   updated |-> TRUE]
             ELSE update_children(new_goal, children, i + 1)

set_goal_fresh(state, new_goal) ==
    GoalState(Goal(new_goal, NoHandle), InitialGoalState.generic_context)

set_goal(state, new_goal) == GoalState(Goal(new_goal, NoHandle), state.generic_context)

update_goal_whole(state, new_goal) == GoalState(new_goal, state.generic_context)

update_goal(state, new_goal) ==
    GoalState(recursive_update(new_goal, state.goal).obj, state.generic_context)

currifier(symbol) ==
    LET X == Hole("X")
        Y == Hole("Y")
        Z == Hole("Z")
        W == Hole("W")
        inner == Rew(X, symbol, Rew(Y, symbol, Z))
        transformation == Rew(Z, symbol, W)
        result == Rew(X, symbol,
                      Rew(Y, symbol, Comp(Comp(Y, Comp(X, inner)), transformation)))
    IN  Rew(inner, symbol, Rew(transformation, symbol, result))

(***************************************************************************)
(* engine/helpers/helper.py.  A world `w` is the helpers' mutable part       *)
(* while one Pipeline call runs:                                             *)
(*   w.state[h]  Helper._state        w.stack[h]  Helper._state_stack        *)
(*   w.hooks[h]  Helper.hooks_state (the keys set to True)                   *)
(***************************************************************************)
\* Engine.__init__: the helpers in registration order.
Helpers == <<"Alias", "Build", "Functorial", "Peano", "Goal">>

HelperSet == {Helpers[i] : i \in 1..Len(Helpers)}

\* Helper.set_state
set_state(w, h, new_state) ==
    [w EXCEPT !.state[h] = new_state, !.stack[h] = Append(@, new_state)]

\* Helper.reset_hooks_state
reset_hooks_state(w, h) == [w EXCEPT !.hooks[h] = {}]

\* hookify's argument count validation: TRUE when the wrapper raises TypeError.
ArityError(arg_count, required, optional, has_var_positional) ==
    /\ ~has_var_positional
    /\ (arg_count < required \/ arg_count > required + optional)

\* What a forhook or backhook returns: the world, the arguments, and whether
\* it raised.
Hooked(w, args, raised) == [w |-> w, args |-> args, raised |-> raised]

\* What a handler returns: ret is "ok" (True, results), "fail" (False,
\* results) or "raise" (an exception left the handler).
Handled(w, ret, results) == [w |-> w, ret |-> ret, results |-> results]

HandlerRaised(w) == Handled(w, "raise", << >>)

Tail1(s) == IF Len(s) = 0 THEN << >> ELSE Tail(s)

(***************************************************************************)
(* core/utils.py extract_integer and the numerals.  str.isdigit, int and    *)
(* str are modelled on the decimal literals of 0 to 15.                     *)
(***************************************************************************)
Numerals ==
    <<"0", "1", "2", "3", "4", "5", "6", "7", "8", "9", "10", "11", "12", "13", "14", "15">>

isdigit(handle) == \E n \in 1..Len(Numerals) : Numerals[n] = handle

int(handle) == (CHOOSE n \in 1..Len(Numerals) : Numerals[n] = handle) - 1

str(n) == IF n + 1 \in 1..Len(Numerals) THEN Numerals[n + 1] ELSE "<many digits>"

\* extract_integer: -1 stands for None.
RECURSIVE extract_integer(_)
extract_integer(obj) ==
    IF obj.type # "Term" THEN -1
    ELSE IF Len(obj.children) = 0 /\ isdigit(obj.handle) THEN int(obj.handle)
    ELSE IF obj.handle = "zero" /\ Len(obj.children) = 0 THEN 0
    ELSE IF obj.handle = "S" /\ Len(obj.children) = 1
    THEN LET inner_val == extract_integer(obj.children[1])
         IN  IF inner_val # -1 THEN inner_val + 1 ELSE -1
    ELSE -1

(***************************************************************************)
(* engine/helpers/alias.py.  AliasState: a sequence of <<name, Object>>.    *)
(***************************************************************************)
RECURSIVE get_alias_from(_, _, _)
get_alias_from(st, name, i) ==
    IF i > Len(st) THEN None
    ELSE IF st[i][1] = name THEN st[i][2]
    ELSE get_alias_from(st, name, i + 1)

get_alias(st, name) == get_alias_from(st, name, 1)

with_alias(st, name, obj) ==
    Append(SelectSeq(st, LAMBDA kv : kv[1] # name), <<name, obj>>)

has_alias(st, name) == \E i \in 1..Len(st) : st[i][1] = name

\* The characters of the names the model writes are letters, digits, '_'
\* and '.', except in the names listed here.
NonAlphanumericNames == {"=>", "<=>", "=", NoHandle}

is_alphanumeric_name(obj) ==
    /\ obj.type = "Term"
    /\ Len(obj.children) = 0
    /\ obj.handle \notin NonAlphanumericNames

RECURSIVE apply_aliases(_, _)
apply_aliases(st, argument) ==
    LET expanded == IF argument.type = "Term" /\ Len(argument.children) = 0
                    THEN get_alias(st, argument.handle)
                    ELSE None
    IN  IF expanded # None
        THEN Object(expanded.type, expanded.children, expanded.handle,
                    with_data(with_data(expanded.data, "alias", argument.handle),
                              "alias_hash", ObjHash(expanded)))
        ELSE Object(argument.type,
                    [i \in 1..Len(argument.children) |->
                        apply_aliases(st, argument.children[i])],
                    argument.handle, argument.data)

RECURSIVE restore_aliases(_)
restore_aliases_tagged(obj) ==
    IF "alias" \in DOMAIN obj.data /\ "alias_hash" \in DOMAIN obj.data
    THEN TermD(obj.data["alias"], << >>,
               [k \in (DOMAIN obj.data) \ {"alias", "alias_hash"} |-> obj.data[k]])
    ELSE IF Len(obj.children) > 0
    THEN Object(obj.type,
                [i \in 1..Len(obj.children) |-> restore_aliases(obj.children[i])],
                obj.handle, obj.data)
    ELSE obj

restore_aliases(obj) ==
    IF /\ "alias" \in DOMAIN obj.data
       /\ "alias_hash" \in DOMAIN obj.data
       /\ ObjHash(obj) = obj.data["alias_hash"]
    THEN TermD(obj.data["alias"], << >>,
               [k \in (DOMAIN obj.data) \ {"alias", "alias_hash"} |-> obj.data[k]])
    ELSE IF Len(obj.children) > 0
    THEN Object(obj.type,
                [i \in 1..Len(obj.children) |-> restore_aliases(obj.children[i])],
                obj.handle, obj.data)
    ELSE obj

AliasHelper_all_forhook(w, directive, args) ==
    LET st == w.state["Alias"]
    IN  IF directive = "Define" /\ Len(args) > 0
        THEN Hooked(w, <<args[1]>> \o [i \in 1..(Len(args) - 1) |->
                                          apply_aliases(st, args[i + 1])], FALSE)
        ELSE Hooked(w, [i \in 1..Len(args) |-> apply_aliases(st, args[i])], FALSE)

AliasHelper_all_backhook(w, directive, results) ==
    Hooked(w, [i \in 1..Len(results) |-> restore_aliases(results[i])], FALSE)

AliasHelper_define_handler(w, directive, args) ==
    IF ArityError(Len(args), 2, 0, FALSE) THEN HandlerRaised(w)
    ELSE LET name == args[1]
             obj == args[2]
         IN  IF name.type # "Term" \/ Len(name.children) # 0
             THEN Handled(w, "fail",
                      <<with_result(name, "Name must be a simple term with no arguments")>>)
             ELSE LET redefinition == has_alias(w.state["Alias"], name.handle)
                  IN  Handled(set_state(w, "Alias",
                                  with_alias(w.state["Alias"], name.handle, obj)),
                              "ok",
                              <<with_result(name, IF redefinition
                                                  THEN "[] defined (redefinition)"
                                                  ELSE "[] defined")>>)

\* axiom_forhook and functorial_forhook have the same body.
AliasHelper_name_forhook(w, directive, args) ==
    IF Len(args) >= 2 /\ is_alphanumeric_name(args[1])
    THEN Hooked(set_state(w, "Alias",
                    with_alias(w.state["Alias"], args[1].handle, args[Len(args)])),
                Tail(args), FALSE)
    ELSE Hooked(w, args, FALSE)

AliasHelper_axiom_forhook(w, directive, args) == AliasHelper_name_forhook(w, directive, args)

AliasHelper_functorial_forhook(w, directive, args) ==
    AliasHelper_name_forhook(w, directive, args)

(***************************************************************************)
(* engine/helpers/peano.py                                                  *)
(***************************************************************************)
RECURSIVE peano(_)
peano(n) == IF n = 0 THEN Term("zero", << >>) ELSE Term("S", <<peano(n - 1)>>)

RECURSIVE integer_to_peano(_)
integer_to_peano(argument) ==
    IF argument.type = "Term" /\ Len(argument.children) = 0 /\ isdigit(argument.handle)
    THEN LET result == peano(int(argument.handle))
         IN  Object(result.type, result.children, result.handle, argument.data)
    ELSE Object(argument.type,
                [i \in 1..Len(argument.children) |->
                    integer_to_peano(argument.children[i])],
                argument.handle, argument.data)

\* count_peano_depth: [count, is_valid]
RECURSIVE count_peano_depth(_)
count_peano_depth(obj) ==
    IF obj.type = "Term" /\ obj.handle = "zero" /\ Len(obj.children) = 0
    THEN [count |-> 0, is_valid |-> TRUE]
    ELSE IF obj.type = "Term" /\ obj.handle = "S" /\ Len(obj.children) = 1
    THEN LET inner == count_peano_depth(obj.children[1])
         IN  IF inner.is_valid THEN [count |-> inner.count + 1, is_valid |-> TRUE]
             ELSE [count |-> 0, is_valid |-> FALSE]
    ELSE [count |-> 0, is_valid |-> FALSE]

RECURSIVE peano_to_integer(_)
peano_to_integer_zero(argument) ==
    IF argument.type = "Term" /\ argument.handle = "zero" /\ Len(argument.children) = 0
    THEN TermD("0", << >>, argument.data)
    ELSE Object(argument.type,
                [i \in 1..Len(argument.children) |->
                    peano_to_integer(argument.children[i])],
                argument.handle, argument.data)

peano_to_integer(argument) ==
    LET recursive_case ==
            Object(argument.type,
                   [i \in 1..Len(argument.children) |->
                       peano_to_integer(argument.children[i])],
                   argument.handle, argument.data)
    IN  IF argument.type = "Term" /\ argument.handle = "S" /\ Len(argument.children) = 1
        THEN LET d == count_peano_depth(argument)
             IN  IF d.is_valid THEN TermD(str(d.count), << >>, argument.data)
                 ELSE recursive_case
        ELSE IF argument.type = "Term" /\ argument.handle = "zero"
                /\ Len(argument.children) = 0
        THEN TermD("0", << >>, argument.data)
        ELSE recursive_case

PeanoHelper_all_forhook(w, directive, args) ==
    Hooked(w, [i \in 1..Len(args) |-> integer_to_peano(args[i])], FALSE)

PeanoHelper_all_backhook(w, directive, results) ==
    Hooked(w, [i \in 1..Len(results) |-> peano_to_integer(results[i])], FALSE)

(***************************************************************************)
(* engine/helpers/utils/build.py and engine/helpers/build.py                *)
(***************************************************************************)
BuildState(working_term, working_term_unreduced) ==
    [working_term |-> working_term, working_term_unreduced |-> working_term_unreduced]

\* What build_start and build_use return; raised when reduce raised.
Built(success, new_state, result, raised) ==
    [success |-> success, new_state |-> new_state, result |-> result, raised |-> raised]

BuildRaised == Built(FALSE, None, None, TRUE)

build_start(initial_term) ==
    LET started(reduced) ==
            IF reduced = Raised THEN BuildRaised
            ELSE Built(TRUE, BuildState(reduced, initial_term),
                       with_result(reduced, "Started building from: []"), FALSE)
    IN  started(reduce(initial_term))

\* A build_use that keeps the term it displays as the working term.
build_use_finish_displayed(st, rule, rule_reduced, composed, unreduced_chain) ==
    IF composed = None
    THEN Built(FALSE, st, with_result(rule_reduced, "Cannot apply [] to {}"), FALSE)
    ELSE LET finished(composed_reduced) ==
                 IF composed_reduced = Raised THEN BuildRaised
                 ELSE IF Len(composed_reduced.children) # 2 THEN BuildRaised
                 ELSE Built(TRUE, BuildState(composed_reduced.children[2], unreduced_chain),
                            with_result(composed_reduced.children[2],
                                        "Applied rule, new term: []"), FALSE)
         IN  finished(reduce(composed))

\* The tail of build_use, once `composed` is known.
build_use_finish(st, rule, rule_reduced, composed, unreduced_chain) ==
    IF composed = None
    THEN Built(FALSE, st, with_result(rule_reduced, "Cannot apply [] to {}"), FALSE)
    ELSE LET finished(composed_reduced) ==
                 IF composed_reduced = Raised THEN BuildRaised
                 \* composed.right raises AttributeError unless there are 2 children
                 ELSE IF Len(composed_reduced.children) # 2 THEN BuildRaised
                 ELSE Built(TRUE, BuildState(composed_reduced, unreduced_chain),
                            with_result(composed_reduced.children[2],
                                        "Applied rule, new term: []"), FALSE)
         IN  finished(reduce(composed))

\* build_use once the rule is reduced.
build_use_reduced(st, rule, rule_reduced) ==
    IF rule_reduced = Raised THEN BuildRaised
    ELSE IF rule_reduced.type # "Rew"
    THEN Built(FALSE, st, with_result(rule, "Use requires a rewriting rule"), FALSE)
    ELSE IF st.working_term.type = "Rew"
    THEN IF st.working_term.handle # rule_reduced.handle
         THEN Built(FALSE, st, with_result(rule_reduced, "Symbol mismatch"), FALSE)
         ELSE build_use_finish(st, rule, rule_reduced,
                               compose_rews(st.working_term, rule_reduced),
                               Comp(st.working_term_unreduced, rule))
    ELSE build_use_finish(st, rule, rule_reduced,
                          compose_rews(identify(st.working_term, rule_reduced.handle),
                                       rule_reduced),
                          Comp(identify(st.working_term_unreduced, rule_reduced.handle),
                               rule))

build_use(st, rule) ==
    IF st.working_term_unreduced = None
    THEN Built(FALSE, st, with_result(rule, "No working term. Use 'Start' first."), FALSE)
    ELSE build_use_reduced(st, rule, reduce(rule))

build_clear == BuildState(None, None)

BuildHelper_handle_start(w, directive, args) ==
    IF ArityError(Len(args), 1, 0, FALSE) THEN HandlerRaised(w)
    ELSE LET started(b) ==
                 IF b.raised THEN HandlerRaised(w)
                 ELSE Handled(set_state(w, "Build", b.new_state), "ok", <<b.result>>)
         IN  started(build_start(args[1]))

BuildHelper_handle_use(w, directive, args) ==
    IF ArityError(Len(args), 1, 0, FALSE) THEN HandlerRaised(w)
    ELSE LET used(b) ==
                 IF b.raised THEN HandlerRaised(w)
                 ELSE IF b.success
                 THEN Handled(set_state(w, "Build", b.new_state), "ok", <<b.result>>)
                 ELSE Handled(w, "fail", <<b.result>>)
         IN  used(build_use(w.state["Build"], args[1]))

BuildHelper_handle_clear(w, directive, args) ==
    IF ArityError(Len(args), 0, 0, FALSE) THEN HandlerRaised(w)
    ELSE Handled(set_state(w, "Build", build_clear), "ok",
                 <<TermD("Cleared", << >>, with_data(NoData, "result", "Working term cleared"))>>)

BuildHelper_done_forhook(w, directive, args) ==
    IF ArityError(Len(args), 0, 0, FALSE) THEN Hooked(w, args, TRUE)
    ELSE IF w.state["Build"].working_term_unreduced = None THEN Hooked(w, << >>, FALSE)
    ELSE Hooked(w, <<w.state["Build"].working_term_unreduced>>, FALSE)

ErrorObject(msg) == TermD("Error", << >>, with_data(NoData, "result", msg))

\* A handle_check that records the state it read as a new snapshot.
BuildHelper_handle_check_recorded(w, directive, args) ==
    IF ArityError(Len(args), 0, 1, FALSE) THEN HandlerRaised(w)
    ELSE LET target == IF Len(args) = 1 THEN args[1] ELSE w.state["Build"].working_term
             recorded == set_state(w, "Build", w.state["Build"])
             checked(c) ==
                 IF c.raised THEN HandlerRaised(recorded)
                 ELSE Handled(recorded, IF c.ok THEN "ok" ELSE "fail",
                              <<with_result(target, c.mes.text)>>)
         IN  IF target = None
             THEN Handled(recorded, "fail", <<ErrorObject("No term to check")>>)
             ELSE checked(check(target, NoHandle, NoContext))

BuildHelper_handle_check(w, directive, args) ==
    IF ArityError(Len(args), 0, 1, FALSE) THEN HandlerRaised(w)
    ELSE LET target == IF Len(args) = 1 THEN args[1] ELSE w.state["Build"].working_term
             checked(c) ==
                 IF c.raised THEN HandlerRaised(w)
                 ELSE Handled(w, IF c.ok THEN "ok" ELSE "fail",
                              <<with_result(target, c.mes.text)>>)
         IN  IF target = None
             THEN Handled(w, "fail", <<ErrorObject("No term to check")>>)
             ELSE checked(check(target, NoHandle, NoContext))

BuildHelper_handle_reduce(w, directive, args) ==
    IF ArityError(Len(args), 1, 0, FALSE) THEN HandlerRaised(w)
    ELSE LET reducing(reduced) ==
                 IF reduced = Raised THEN HandlerRaised(w)
                 ELSE Handled(w, "ok", <<reduced>>)
         IN  reducing(reduce(args[1]))

(***************************************************************************)
(* engine/helpers/utils/functorial.py and engine/helpers/functorial.py.     *)
(* FunctorialState: a sequence of <<key, value>>, key = <<inner_rew,         *)
(* term_symbol, position>>, value = <<outer_rew, rule>>.                     *)
(***************************************************************************)
RECURSIVE get_functorial_from(_, _, _)
get_functorial_from(st, key, i) ==
    IF i > Len(st) THEN None
    ELSE IF st[i][1] = key THEN st[i][2]
    ELSE get_functorial_from(st, key, i + 1)

get_functorial(st, inner_rew, term_symbol, position) ==
    get_functorial_from(st, <<inner_rew, term_symbol, position>>, 1)

add_functorial(st, inner_rew, term_symbol, position, outer_rew, rule) ==
    LET key == <<inner_rew, term_symbol, position>>
    IN  Append(SelectSeq(st, LAMBDA kv : kv[1] # key), <<key, <<outer_rew, rule>> >>)

IsSymbol(obj) == obj.type = "Term" /\ Len(obj.children) = 0

FunctorialHelper_handle_functorial(w, directive, args) ==
    IF ArityError(Len(args), 5, 0, FALSE) THEN HandlerRaised(w)
    ELSE LET inner_rew == args[1]
             term_symbol == args[2]
             position == args[3]
             outer_rew == args[4]
             rule == args[5]
             pos_int == extract_integer(position)
         IN  IF ~IsSymbol(inner_rew)
             THEN Handled(w, "fail",
                      <<with_result(inner_rew, "inner_rew must be a simple term (symbol)")>>)
             ELSE IF ~IsSymbol(term_symbol)
             THEN Handled(w, "fail",
                      <<with_result(term_symbol, "term_symbol must be a simple term (symbol)")>>)
             ELSE IF ~IsSymbol(outer_rew)
             THEN Handled(w, "fail",
                      <<with_result(outer_rew, "outer_rew must be a simple term (symbol)")>>)
             ELSE IF pos_int = -1
             THEN Handled(w, "fail", <<with_result(position, "position must be a number")>>)
             ELSE IF rule.type # "Rew"
             THEN Handled(w, "fail",
                      <<with_result(rule, "Functorial rule must be a rewriting")>>)
             ELSE Handled(set_state(w, "Functorial",
                              add_functorial(w.state["Functorial"], inner_rew.handle,
                                             term_symbol.handle, pos_int,
                                             outer_rew.handle, rule)),
                          "ok", <<with_result(rule, "Functorial registered for {} at position {}")>>)

\* wrap_rule's walk down the working term: [ok, path], path a sequence of
\* <<term_symbol, position_idx>>; ok = FALSE when a position is out of bounds.
RECURSIVE wrap_path(_, _, _, _)
wrap_path(current_term, positions, i, path) ==
    IF i > Len(positions) THEN [ok |-> TRUE, path |-> path]
    ELSE IF positions[i] < 0 \/ positions[i] >= Len(current_term.children)
    THEN [ok |-> FALSE, path |-> path]
    ELSE wrap_path(current_term.children[positions[i] + 1], positions, i + 1,
                   Append(path, <<current_term.handle, positions[i]>>))

\* wrap_rule's second loop, over reversed(path): i runs from Len(path) to 1.
\* Returns [ok, rule, msg].
RECURSIVE wrap_loop(_, _, _, _, _)
wrap_loop(st, path, i, wrapped_rule, current_inner_rew) ==
    IF i = 0 THEN [ok |-> TRUE, rule |-> wrapped_rule, msg |-> ""]
    ELSE LET functorial_data == get_functorial(st, current_inner_rew, path[i][1], path[i][2])
         IN  IF functorial_data = None
             THEN [ok |-> FALSE, rule |-> wrapped_rule, msg |-> "No functorial rule for {}"]
             ELSE LET wrapping(reduced) ==
                          IF reduced = Raised
                          THEN [ok |-> FALSE, rule |-> wrapped_rule,
                                msg |-> "Max number of steps reached, reduction not finished"]
                          ELSE wrap_loop(st, path, i - 1, reduced, functorial_data[1])
                  IN  wrapping(reduce(Comp(wrapped_rule, functorial_data[2])))

wrap_rule_identified(w, rule, positions) ==
    LET working_term == w.state["Build"].working_term
    IN  IF working_term = None
        THEN [ok |-> FALSE, rule |-> rule,
              msg |-> "No working term. Use 'Start' before 'Use' with positions."]
        ELSE IF rule.type # "Rew"
        THEN [ok |-> FALSE, rule |-> rule, msg |-> "Can only wrap rewriting rules"]
        ELSE [ok |-> TRUE, rule |-> identify(rule, rule.handle), msg |-> ""]

\* wrap_rule: ok = FALSE stands for the ValueError, msg its text.
wrap_rule(w, rule, positions) ==
    LET working_term == w.state["Build"].working_term
    IN  IF working_term = None
        THEN [ok |-> FALSE, rule |-> rule,
              msg |-> "No working term. Use 'Start' before 'Use' with positions."]
        ELSE IF rule.type # "Rew"
        THEN [ok |-> FALSE, rule |-> rule, msg |-> "Can only wrap rewriting rules"]
        ELSE LET p == wrap_path(working_term, positions, 1, << >>)
             IN  IF ~p.ok
                 THEN [ok |-> FALSE, rule |-> rule, msg |-> "Position {} out of bounds for term {}"]
                 ELSE wrap_loop(w.state["Functorial"], p.path, Len(p.path), rule, rule.handle)

FunctorialHelper_use_forhook(w, directive, args) ==
    IF ArityError(Len(args), 1, 0, TRUE) \/ Len(args) < 1 THEN Hooked(w, args, TRUE)
    ELSE LET rule == args[1]
             positions == Tail(args)
             pos_indices == [i \in 1..Len(positions) |-> extract_integer(positions[i])]
         IN  IF Len(positions) = 0 THEN Hooked(w, <<rule>>, FALSE)
             ELSE IF \E i \in 1..Len(positions) : pos_indices[i] = -1
             THEN Hooked(w, <<with_result(rule, "Position must be a number, got: {}")>>, FALSE)
             ELSE LET wrapping(wrapped) ==
                          IF wrapped.ok THEN Hooked(w, <<wrapped.rule>>, FALSE)
                          ELSE Hooked(w, <<with_result(rule, wrapped.msg)>>, FALSE)
                  IN  wrapping(wrap_rule(w, rule, pos_indices))

(***************************************************************************)
(* engine/helpers/goal.py                                                   *)
(***************************************************************************)
GoalHelper_handle_goal(w, directive, args) ==
    IF ArityError(Len(args), 1, 0, FALSE) THEN HandlerRaised(w)
    ELSE LET stated(new_state) ==
                 IF new_state.goal = Raised THEN HandlerRaised(w)
                 ELSE Handled(set_state(w, "Goal", new_state), "ok",
                              <<with_result(get_goal(new_state), "New goal: []")>>)
         IN  stated(set_goal(w.state["Goal"], args[1]))

GoalHelper_handle_intro_whole(w, directive, args) ==
    IF ArityError(Len(args), 0, 0, FALSE) THEN HandlerRaised(w)
    ELSE LET goal == get_goal(w.state["Goal"])
         IN  IF goal = None THEN HandlerRaised(w)
             ELSE LET goal_term == goal.children[1]
                  IN  IF goal_term.type # "Rew"
                      THEN Handled(w, "fail", <<with_result(goal, "Goal is not a rewriting")>>)
                      ELSE LET introduced(right) ==
                                   IF right = Raised THEN HandlerRaised(w)
                                   ELSE Handled(set_state(w, "Goal",
                                                    update_goal(w.state["Goal"], right)),
                                                "ok", <<with_result(right, "New goal: []")>>)
                           IN  introduced(Goal(goal_term.children[2], goal_term.handle))

GoalHelper_handle_intro(w, directive, args) ==
    IF ArityError(Len(args), 0, 0, FALSE) THEN HandlerRaised(w)
    ELSE LET goal == get_goal(w.state["Goal"])
         IN  \* goal.children[0] on None, or on a Goal without children
             IF goal = None THEN HandlerRaised(w)
             ELSE LET goal_term == goal.children[1]
                  IN  IF goal_term.type # "Rew"
                      THEN Handled(w, "fail", <<with_result(goal, "Goal is not a rewriting")>>)
                      ELSE LET introduced(right) ==
                                   IF right = Raised THEN HandlerRaised(w)
                                   ELSE Handled(set_state(w, "Goal",
                                                    update_goal(w.state["Goal"],
                                                        Rew(goal_term.children[1],
                                                            goal_term.handle, right))),
                                                "ok", <<with_result(right, "New goal: []")>>)
                           IN  introduced(Goal(goal_term.children[2], goal_term.handle))

\* check_rew_to_goal's loop: [ok, premises, assignements].
RECURSIVE peel_premises(_, _, _)
peel_premises(goal_left, current, premises) ==
    LET matched(m) ==
            IF m.ok THEN [ok |-> TRUE, premises |-> premises, assignements |-> m.asg]
            ELSE IF current.type # "Rew"
            THEN [ok |-> FALSE, premises |-> premises, assignements |-> NoAsg]
            ELSE peel_premises(goal_left, current.children[2],
                               Append(premises, current.children[1]))
    IN  matched(match(goal_left, current, NoAsg))

\* check_rew_to_goal: [ok, premises, assignements, error, raised].
check_rew_to_goal(goal_term, argument) ==
    LET Result(ok, premises, asg, error, raised) ==
            [ok |-> ok, premises |-> premises, assignements |-> asg,
             error |-> error, raised |-> raised]
        peeled(p) ==
            IF ~p.ok
            THEN Result(FALSE, << >>, NoAsg,
                        <<with_result(argument, "Can't apply {} to obtain {}")>>, FALSE)
            ELSE IF Len(p.premises) > 2
            THEN Result(FALSE, << >>, NoAsg,
                        <<with_result(argument,
                            "Rules with more than 2 premises are not yet supported.")>>,
                        FALSE)
            ELSE Result(TRUE, p.premises, p.assignements, << >>, FALSE)
        reduced(current) ==
            IF current = Raised THEN Result(FALSE, << >>, NoAsg, << >>, TRUE)
            ELSE peeled(peel_premises(goal_term.children[1], current, << >>))
    IN  reduced(reduce(argument))

\* for premise in premises: building = Comp(Goal(apply(premise, ...)), building)
RECURSIVE wrap_premises(_, _, _, _, _)
wrap_premises(premises, i, assignements, goal_rew, building) ==
    IF i > Len(premises) \/ building = Raised THEN building
    ELSE LET wrapped(goal_premise) ==
                 IF goal_premise = Raised THEN Raised
                 ELSE wrap_premises(premises, i + 1, assignements, goal_rew,
                                    Comp(goal_premise, building))
         IN  wrapped(Goal(apply(premises[i], assignements), goal_rew))

build_rew_goal(goal_term, goal_rew, argument, premises, assignements) ==
    wrap_premises(premises, 1, assignements, goal_rew,
                  IF Len(premises) = 2
                  THEN Comp(goal_term, Comp(argument, currifier(goal_rew)))
                  ELSE Comp(argument, goal_term))

\* handle_by from "Build composition with the (possibly wrapped) argument" on.
handle_by_wrapped(w, goal_rew, term, wrapped, premises, assignements) ==
    IF wrapped = Raised THEN HandlerRaised(w)
    ELSE LET updated(new_state) ==
                 \* replace(None, ...) raises once the state is set
                 IF get_goal(new_state) = None
                 THEN HandlerRaised(set_state(w, "Goal", new_state))
                 ELSE Handled(set_state(w, "Goal", new_state), "ok",
                              <<with_result(get_goal(new_state), "New goal: []")>>)
             built(building) ==
                 IF building = Raised THEN HandlerRaised(w)
                 ELSE updated(update_goal(w.state["Goal"], building))
         IN  built(build_rew_goal(term, goal_rew, wrapped, premises, assignements))

\* handle_by once check has answered.
handle_by_checked(w, goal_rew, term, argument, force, premises, assignements, c) ==
    IF c.raised THEN HandlerRaised(w)
    ELSE IF (goal_rew = NoHandle \/ ~c.ok) /\ (force = None \/ force.handle # "force")
    THEN Handled(w, "fail",
             <<with_result(argument,
                 "[] is not a known rewriting. Use 'force' to use it anyway.")>>)
    ELSE handle_by_wrapped(w, goal_rew, term,
                           IF goal_rew = NoHandle \/ ~c.ok
                           THEN Goal(argument, goal_rew)
                           ELSE argument,
                           premises, assignements)

\* handle_by from "Check buildability" on.
handle_by_build(w, goal_rew, term, argument, force, premises, assignements) ==
    handle_by_checked(w, goal_rew, term, argument, force, premises, assignements,
                      check(argument, goal_rew, get_context(w.state["Goal"])))

\* handle_by once check_rew_to_goal has answered: first for the goal term
\* identified, second, which is asked only when first fails and the goal
\* term is a rewriting, for the goal term itself.
handle_by_matched(w, argument, force, goal, first, second) ==
    IF first.raised THEN HandlerRaised(w)
    ELSE IF ~first.ok /\ goal.children[1].type # "Rew" THEN Handled(w, "fail", first.error)
    ELSE IF ~first.ok /\ second.raised THEN HandlerRaised(w)
    ELSE IF ~first.ok /\ ~second.ok THEN Handled(w, "fail", second.error)
    ELSE handle_by_build(w, GoalRew(goal),
                         IF first.ok THEN identify(goal.children[1], GoalRew(goal))
                         ELSE goal.children[1],
                         argument, force,
                         IF first.ok THEN first.premises ELSE second.premises,
                         IF first.ok THEN first.assignements ELSE second.assignements)

GoalHelper_handle_by(w, directive, args) ==
    IF ArityError(Len(args), 1, 1, FALSE) THEN HandlerRaised(w)
    ELSE LET argument == args[1]
             force == IF Len(args) = 2 THEN args[2] ELSE None
             goal == get_goal(w.state["Goal"])
         IN  IF goal = None THEN HandlerRaised(w)
             ELSE handle_by_matched(w, argument, force, goal,
                      check_rew_to_goal(identify(goal.children[1], GoalRew(goal)),
                                        argument),
                      check_rew_to_goal(goal.children[1], argument))

\* The end of each successful branch of handle_done.
done_complete(w, new_goal) ==
    LET new_state == update_goal(w.state["Goal"], new_goal)
        reduced(completed) ==
            IF completed = Raised THEN HandlerRaised(set_state(w, "Goal", new_state))
            ELSE Handled(set_state(w, "Goal", new_state), "ok",
                         <<with_result(completed, "Goal completed: []")>>)
    IN  reduced(reduce(new_state.goal))

\* handle_done with a candidate, once check and reduce have answered: for
\* the candidate (is_buildable, reduced_candidate) and, asked only on the
\* second chance, for its two sides (is_buildable_left,
\* reduced_candidate_right).
handle_done_checked(w, goal, candidate, is_buildable, reduced_candidate, is_buildable_left, reduced_candidate_right) ==
    IF is_buildable.raised \/ reduced_candidate = Raised THEN HandlerRaised(w)
    ELSE IF ~is_buildable.ok
            \/ (~ObjEq(reduced_candidate, goal.children[1]) /\ reduced_candidate.type # "Rew")
    THEN Handled(w, "fail",
             <<with_result(goal, "Candidate does not complete the goal: []")>>)
    ELSE IF ~ObjEq(reduced_candidate, goal.children[1])
            /\ (is_buildable_left.raised \/ reduced_candidate_right = Raised)
    THEN HandlerRaised(w)
    ELSE IF ~ObjEq(reduced_candidate, goal.children[1])
            /\ ~(is_buildable_left.ok /\ ObjEq(reduced_candidate_right, goal.children[1]))
    THEN Handled(w, "fail",
             <<with_result(goal, "Candidate does not complete the goal: []")>>)
    ELSE done_complete(w, IF ObjEq(reduced_candidate, goal.children[1])
                          THEN candidate
                          ELSE Comp(reduced_candidate.children[1], candidate))

handle_done_candidate(w, goal, candidate) ==
    LET second_chance(is_buildable, reduced_candidate) ==
            handle_done_checked(w, goal, candidate, is_buildable, reduced_candidate,
                check(reduced_candidate.children[1], GoalRew(goal), is_buildable.ctx),
                reduce(reduced_candidate.children[2]))
    IN  second_chance(check(candidate, GoalRew(goal), get_context(w.state["Goal"])),
                      reduce(candidate))

GoalHelper_handle_done_unasked(w, directive, args) ==
    IF ArityError(Len(args), 0, 1, FALSE) THEN HandlerRaised(w)
    ELSE LET goal == get_goal(w.state["Goal"])
         IN  IF goal = None THEN Handled(w, "fail", <<ErrorObject("No active goals")>>)
             ELSE IF Len(args) = 1 THEN handle_done_candidate(w, goal, args[1])
             ELSE done_complete(w, goal.children[1])

GoalHelper_handle_done(w, directive, args) ==
    IF ArityError(Len(args), 0, 1, FALSE) THEN HandlerRaised(w)
    ELSE LET goal == get_goal(w.state["Goal"])
         IN  IF goal = None THEN Handled(w, "fail", <<ErrorObject("No active goals")>>)
             ELSE IF Len(args) = 1 THEN handle_done_candidate(w, goal, args[1])
             ELSE LET goal_rew == GoalRew(goal)
                      context == get_context(w.state["Goal"])
                  IN  IF /\ goal_rew # NoHandle
                         /\ goal_rew \in DOMAIN context
                         /\ InList(goal.data["unreduced"], context[goal_rew])
                      THEN done_complete(w, goal.children[1])
                      ELSE Handled(w, "fail", <<with_result(goal, "Goal not completed: []")>>)

GoalHelper_handle_status(w, directive, args) ==
    IF ArityError(Len(args), 0, 0, FALSE) THEN HandlerRaised(w)
    ELSE Handled(w, "ok", <<TermD("Status", << >>, with_data(NoData, "result", "Goals: {}"))>>)

GoalHelper_use_forhook(w, directive, args) ==
    IF ArityError(Len(args), 1, 0, FALSE) THEN Hooked(w, args, TRUE)
    ELSE LET rule == args[1]
             goal == get_goal(w.state["Goal"])
         IN  IF goal = None THEN Hooked(w, <<rule>>, FALSE)
             ELSE LET checked(c) ==
                          IF c.raised THEN Hooked(w, args, TRUE)
                          ELSE IF ~c.ok
                          THEN Hooked([w EXCEPT !.hooks["Goal"] =
                                                    @ \cup {"buildability_warning"}],
                                      <<rule>>, FALSE)
                          ELSE Hooked(w, <<rule>>, FALSE)
                  IN  checked(check(rule, GoalRew(goal), get_context(w.state["Goal"])))

GoalHelper_use_backhook(w, directive, results) ==
    IF ArityError(Len(results), 1, 0, FALSE) THEN Hooked(w, results, TRUE)
    ELSE LET result == results[1]
         IN  IF "buildability_warning" \notin w.hooks["Goal"] THEN Hooked(w, <<result>>, FALSE)
             ELSE IF "result" \in DOMAIN result.data /\ result.data["result"] # ""
             THEN Hooked(w, <<with_result(result, result.data["result"]
                                 \o " (Warning: the rule you used is not buildable)")>>, FALSE)
             ELSE Hooked(w, <<with_result(result,
                                 "(Warning: the rule you used is not buildable)")>>, FALSE)

GoalHelper_handle_axiom(w, directive, args) ==
    IF Len(args) \notin {1, 2}
    THEN Handled(w, "fail", <<ErrorObject("Axiom expects 1 or 2 arguments, got {}")>>)
    ELSE LET rule_symbol == IF Len(args) = 1 THEN "=>" ELSE args[1].handle
             axiom_term == args[Len(args)]
         IN  Handled(set_state(w, "Goal", add_axiom(w.state["Goal"], rule_symbol, axiom_term)),
                     "ok", <<with_result(axiom_term, "Added [] to context for {}")>>)

(***************************************************************************)
(* The registrations each helper's __init__ makes, in the order it makes    *)
(* them: hooks as [directive, forhook, backhook], handlers as               *)
(* [directive, handler].                                                    *)
(***************************************************************************)
HookReg(directive, forhook, backhook) ==
    [directive |-> directive, forhook |-> forhook, backhook |-> backhook]

HandlerReg(directive, handler) == [directive |-> directive, handler |-> handler]

RegisteredHooks(h) ==
    CASE h = "Alias" ->
            <<HookReg("Axiom", "AliasHelper.axiom_forhook", "none"),
              HookReg("Functorial", "AliasHelper.functorial_forhook", "none"),
              HookReg("ALL", "AliasHelper.all_forhook", "AliasHelper.all_backhook")>>
      [] h = "Build" -> <<HookReg("Done", "BuildHelper.done_forhook", "none")>>
      [] h = "Functorial" -> <<HookReg("Use", "FunctorialHelper.use_forhook", "none")>>
      [] h = "Peano" ->
            <<HookReg("ALL", "PeanoHelper.all_forhook", "PeanoHelper.all_backhook")>>
      [] h = "Goal" ->
            <<HookReg("Use", "GoalHelper.use_forhook", "GoalHelper.use_backhook")>>

RegisteredHandlers(h) ==
    CASE h = "Alias" -> <<HandlerReg("Define", "AliasHelper.define_handler")>>
      [] h = "Build" ->
            <<HandlerReg("Start", "BuildHelper.handle_start"),
              HandlerReg("Use", "BuildHelper.handle_use"),
              HandlerReg("Clear", "BuildHelper.handle_clear"),
              HandlerReg("Check", "BuildHelper.handle_check"),
              HandlerReg("Reduce", "BuildHelper.handle_reduce")>>
      [] h = "Functorial" ->
            <<HandlerReg("Functorial", "FunctorialHelper.handle_functorial")>>
      [] h = "Peano" -> << >>
      [] h = "Goal" ->
            <<HandlerReg("Done", "GoalHelper.handle_done"),
              HandlerReg("Goal", "GoalHelper.handle_goal"),
              HandlerReg("Intro", "GoalHelper.handle_intro"),
              HandlerReg("Status", "GoalHelper.handle_status"),
              HandlerReg("By", "GoalHelper.handle_by"),
              HandlerReg("Axiom", "GoalHelper.handle_axiom")>>

\* A get_hooks that gives one hook as Helper.get_hook does: the one of the
\* directive, or else the one of 'ALL'.
get_hooks_one(h, directive) ==
    LET own == SelectSeq(RegisteredHooks(h), LAMBDA r : r.directive = directive)
    IN  IF Len(own) > 0 THEN own
        ELSE SelectSeq(RegisteredHooks(h), LAMBDA r : r.directive = "ALL")

\* Helper.get_hooks, which Pipeline.process calls: the helper's hooks for the
\* directive and for 'ALL', in registration order.
get_hooks(h, directive) ==
    SelectSeq(RegisteredHooks(h), LAMBDA r : r.directive = directive \/ r.directive = "ALL")

\* A get_handler that gives the goal helper's Status handler to a directive
\* the helper has none for.
get_handler_default(h, directive) ==
    LET found == SelectSeq(RegisteredHandlers(h), LAMBDA r : r.directive = directive)
    IN  IF Len(found) = 0
        THEN IF h = "Goal" THEN "GoalHelper.handle_status" ELSE "none"
        ELSE found[Len(found)].handler

\* Helper.get_handler: "none" stands for None.
get_handler(h, directive) ==
    LET found == SelectSeq(RegisteredHandlers(h), LAMBDA r : r.directive = directive)
    IN  IF Len(found) = 0 THEN "none" ELSE found[Len(found)].handler

call_forhook(forhook, w, directive, args) ==
    CASE forhook = "AliasHelper.axiom_forhook" -> AliasHelper_axiom_forhook(w, directive, args)
      [] forhook = "AliasHelper.functorial_forhook" ->
            AliasHelper_functorial_forhook(w, directive, args)
      [] forhook = "AliasHelper.all_forhook" -> AliasHelper_all_forhook(w, directive, args)
      [] forhook = "BuildHelper.done_forhook" -> BuildHelper_done_forhook(w, directive, args)
      [] forhook = "FunctorialHelper.use_forhook" ->
            FunctorialHelper_use_forhook(w, directive, args)
      [] forhook = "PeanoHelper.all_forhook" -> PeanoHelper_all_forhook(w, directive, args)
      [] forhook = "GoalHelper.use_forhook" -> GoalHelper_use_forhook(w, directive, args)

call_backhook(backhook, w, directive, results) ==
    CASE backhook = "AliasHelper.all_backhook" -> AliasHelper_all_backhook(w, directive, results)
      [] backhook = "PeanoHelper.all_backhook" -> PeanoHelper_all_backhook(w, directive, results)
      [] backhook = "GoalHelper.use_backhook" -> GoalHelper_use_backhook(w, directive, results)

call_handler(handler, w, directive, args) ==
    CASE handler = "AliasHelper.define_handler" -> AliasHelper_define_handler(w, directive, args)
      [] handler = "BuildHelper.handle_start" -> BuildHelper_handle_start(w, directive, args)
      [] handler = "BuildHelper.handle_use" -> BuildHelper_handle_use(w, directive, args)
      [] handler = "BuildHelper.handle_clear" -> BuildHelper_handle_clear(w, directive, args)
      [] handler = "BuildHelper.handle_check" -> BuildHelper_handle_check(w, directive, args)
      [] handler = "BuildHelper.handle_reduce" -> BuildHelper_handle_reduce(w, directive, args)
      [] handler = "FunctorialHelper.handle_functorial" ->
            FunctorialHelper_handle_functorial(w, directive, args)
      [] handler = "GoalHelper.handle_done" -> GoalHelper_handle_done(w, directive, args)
      [] handler = "GoalHelper.handle_goal" -> GoalHelper_handle_goal(w, directive, args)
      [] handler = "GoalHelper.handle_intro" -> GoalHelper_handle_intro(w, directive, args)
      [] handler = "GoalHelper.handle_status" -> GoalHelper_handle_status(w, directive, args)
      [] handler = "GoalHelper.handle_by" -> GoalHelper_handle_by(w, directive, args)
      [] handler = "GoalHelper.handle_axiom" -> GoalHelper_handle_axiom(w, directive, args)

(***************************************************************************)
(* engine/pipeline.py, Pipeline.process.  A run `r` of process is           *)
(*   [w, args, raised, backhooks_to_run, trace]                             *)
(* trace lists the calls made: [kind, helper, name, input, output].         *)
(***************************************************************************)
Call(kind, helper, name, input, output) ==
    [kind |-> kind, helper |-> helper, name |-> name, input |-> input, output |-> output]

\* for forhook, backhook in hooks: ...
RECURSIVE run_helper_hooks(_, _, _, _, _)
run_helper_hooks(h, hooks, j, directive, r) ==
    IF j > Len(hooks) \/ r.raised THEN r
    ELSE LET hooked(out) ==
                 [w |-> out.w,
                  args |-> out.args,
                  raised |-> out.raised,
                  backhooks_to_run |->
                      IF ~out.raised /\ hooks[j].backhook # "none"
                      THEN Append(r.backhooks_to_run,
                                  [helper |-> h, backhook |-> hooks[j].backhook])
                      ELSE r.backhooks_to_run,
                  trace |-> Append(r.trace,
                      Call("forhook", h, hooks[j].forhook, r.args, out.args))]
         IN  run_helper_hooks(h, hooks, j + 1, directive,
                 hooked(call_forhook(hooks[j].forhook, r.w, directive, r.args)))

\* Phase 1: for helper in self.helpers: ...
RECURSIVE apply_forhooks(_, _, _, _)
apply_forhooks(helpers, i, directive, r) ==
    IF i > Len(helpers) \/ r.raised THEN r
    ELSE LET hooks == get_hooks(helpers[i], directive)
         IN  apply_forhooks(helpers, i + 1, directive,
                 IF Len(hooks) > 0
                 THEN run_helper_hooks(helpers[i], hooks, 1, directive,
                          [r EXCEPT !.w = reset_hooks_state(r.w, helpers[i])])
                 ELSE r)

\* Phase 2: the first helper, in self.helpers, with a handler; "none" if none.
RECURSIVE find_handling_helper(_, _, _)
find_handling_helper(helpers, i, directive) ==
    IF i > Len(helpers) THEN "none"
    ELSE IF get_handler(helpers[i], directive) # "none" THEN helpers[i]
    ELSE find_handling_helper(helpers, i + 1, directive)

\* Phase 3 without reversed(): the backhooks in the order they were collected.
RECURSIVE apply_backhooks_forward(_, _, _, _)
apply_backhooks_forward(backhooks_to_run, k, directive, r) ==
    IF k = 0 \/ r.raised THEN r
    ELSE LET b == backhooks_to_run[Len(backhooks_to_run) + 1 - k]
             hooked(out) ==
                 [r EXCEPT !.w = out.w, !.args = out.args, !.raised = out.raised,
                           !.trace = Append(@, Call("backhook", b.helper, b.backhook,
                                                    r.args, out.args))]
         IN  apply_backhooks_forward(backhooks_to_run, k - 1, directive,
                 hooked(call_backhook(b.backhook, r.w, directive, r.args)))

\* Phase 3: for backhook in reversed(backhooks_to_run): ...; k runs down to 1.
RECURSIVE apply_backhooks(_, _, _, _)
apply_backhooks(backhooks_to_run, k, directive, r) ==
    IF k = 0 \/ r.raised THEN r
    ELSE LET hooked(out) ==
                 [r EXCEPT !.w = out.w, !.args = out.args, !.raised = out.raised,
                           !.trace = Append(@, Call("backhook", backhooks_to_run[k].helper,
                                                    backhooks_to_run[k].backhook,
                                                    r.args, out.args))]
         IN  apply_backhooks(backhooks_to_run, k - 1, directive,
                 hooked(call_backhook(backhooks_to_run[k].backhook, r.w, directive,
                                      r.args)))

\* What process leaves: the world, ret ("ok" / "fail" for the success flag
\* returned, "raise" when an exception left process), the results, the entry
\* appended to handler_stack (<< >> when none was), and the calls made.
Processed(w, ret, results, pushed, trace) ==
    [w |-> w, ret |-> ret, results |-> results, pushed |-> pushed, trace |-> trace]

\* process once the handler has returned `result`: the entry appended to
\* handler_stack and Phase 3; p1 is the run as Phase 1 left it.
process_handled(directive, p1, handling_helper, handler, result) ==
    LET trace2 == Append(p1.trace,
                         Call("handler", handling_helper, handler, p1.args,
                              result.results))
        phase3(p3) ==
            Processed(p3.w, IF p3.raised THEN "raise" ELSE result.ret,
                      IF p3.raised THEN << >> ELSE p3.args,
                      <<directive, handling_helper>>, p3.trace)
    IN  IF result.ret = "raise"
        THEN Processed(result.w, "raise", << >>, << >>, trace2)
        ELSE phase3(apply_backhooks(p1.backhooks_to_run, Len(p1.backhooks_to_run),
                                    directive,
                                    [w |-> result.w, args |-> result.results,
                                     raised |-> FALSE, backhooks_to_run |-> << >>,
                                     trace |-> trace2]))

\* process from Phase 2 on; p1 is the run as Phase 1 left it.
process_handle(helpers, directive, p1) ==
    LET handling_helper == find_handling_helper(helpers, 1, directive)
        handler == get_handler(handling_helper, directive)
    IN  IF p1.raised THEN Processed(p1.w, "raise", << >>, << >>, p1.trace)
        ELSE IF handling_helper = "none"
        THEN Processed(p1.w, "fail",
                 <<ErrorObject("No handler registered for directive: {}")>>, << >>,
                 p1.trace)
        ELSE process_handled(directive, p1, handling_helper, handler,
                             call_handler(handler, p1.w, directive, p1.args))

process(helpers, w, directive, arguments) ==
    process_handle(helpers, directive,
        apply_forhooks(helpers, 1, directive,
            [w |-> w, args |-> arguments, raised |-> FALSE,
             backhooks_to_run |-> << >>, trace |-> << >>]))

(***************************************************************************)
(* engine/helpers/helper.py: undo, breakpoint and rollback of one helper.   *)
(* A helper `hs` is [state, stack, breakpoints] (_state, _state_stack,      *)
(* _breakpoints); a dict from names to indices is a function on the names   *)
(* recorded.                                                                *)
(***************************************************************************)
NoBreakpoints == [k \in {} |-> 0]

dict_set(d, key, value) == [k \in DOMAIN d \cup {key} |-> IF k = key THEN value ELSE d[k]]

\* {k: v for k, v in d.items() if v < idx}
dict_below(d, idx) == [k \in {n \in DOMAIN d : d[n] < idx} |-> d[k]]

\* {k: v for k, v in d.items() if v <= idx}
dict_upto(d, idx) == [k \in {n \in DOMAIN d : d[n] <= idx} |-> d[k]]

\* s[:n]
Prefix(s, n) == SubSeq(s, 1, IF n < Len(s) THEN n ELSE Len(s))

HelperOf(w, helper_breakpoints, h) ==
    [state |-> w.state[h], stack |-> w.stack[h], breakpoints |-> helper_breakpoints[h]]

\* An undo that pops the initial snapshot too.
Helper_undo_below(hs) ==
    IF Len(hs.stack) = 0 THEN [hs |-> hs, ret |-> FALSE]
    ELSE LET popped == SubSeq(hs.stack, 1, Len(hs.stack) - 1)
         IN  [hs |-> [hs EXCEPT !.stack = popped,
                                !.state = IF Len(popped) = 0 THEN @ ELSE popped[Len(popped)]],
              ret |-> TRUE]

Helper_undo(hs) ==
    IF Len(hs.stack) <= 1 THEN [hs |-> hs, ret |-> FALSE]
    ELSE LET popped == SubSeq(hs.stack, 1, Len(hs.stack) - 1)
         IN  [hs |-> [hs EXCEPT !.stack = popped, !.state = popped[Len(popped)]],
              ret |-> TRUE]

Helper_breakpoint(hs, name) ==
    [hs EXCEPT !.breakpoints = dict_set(@, name, Len(hs.stack) - 1)]

\* A rollback that keeps stack[:idx], one snapshot short.
Helper_rollback_short(hs, name) ==
    IF name \notin DOMAIN hs.breakpoints THEN [hs |-> hs, ret |-> FALSE]
    ELSE LET idx == hs.breakpoints[name]
             kept == Prefix(hs.stack, IF idx = 0 THEN 1 ELSE idx)
         IN  [hs |-> [state |-> kept[Len(kept)], stack |-> kept,
                      breakpoints |-> dict_upto(hs.breakpoints, idx)],
              ret |-> TRUE]

\* A rollback that cuts the stack and leaves the current state as it is.
Helper_rollback_stale(hs, name) ==
    IF name \notin DOMAIN hs.breakpoints THEN [hs |-> hs, ret |-> FALSE]
    ELSE LET idx == hs.breakpoints[name]
             kept == Prefix(hs.stack, idx + 1)
         IN  [hs |-> [state |-> hs.state, stack |-> kept,
                      breakpoints |-> dict_upto(hs.breakpoints, idx)],
              ret |-> TRUE]

Helper_rollback(hs, name) ==
    IF name \notin DOMAIN hs.breakpoints THEN [hs |-> hs, ret |-> FALSE]
    ELSE LET idx == hs.breakpoints[name]
             kept == Prefix(hs.stack, idx + 1)
         IN  [hs |-> [state |-> kept[Len(kept)], stack |-> kept,
                      breakpoints |-> dict_upto(hs.breakpoints, idx)],
              ret |-> TRUE]

(***************************************************************************)
(* engine/pipeline.py: undo, breakpoint and rollback.  The pipeline `p` is  *)
(* [w, helper_breakpoints, handler_stack, breakpoints].                     *)
(***************************************************************************)
PipelineOf(w, helper_breakpoints, handler_stack, breakpoints) ==
    [w |-> w, helper_breakpoints |-> helper_breakpoints,
     handler_stack |-> handler_stack, breakpoints |-> breakpoints]

\* p with helper h replaced by hs
WithHelper(p, h, hs) ==
    [p EXCEPT !.w.state[h] = hs.state, !.w.stack[h] = hs.stack,
              !.helper_breakpoints[h] = hs.breakpoints]

\* Pipeline.undo: ret is the success flag, directive the directive returned
\* ("none" for None), helper_ret what Helper.undo returned ("none" when it
\* was not called).
Pipeline_undo(p) ==
    IF Len(p.handler_stack) = 0
    THEN [p |-> p, ret |-> FALSE, directive |-> "none", helper_ret |-> "none"]
    ELSE LET top == p.handler_stack[Len(p.handler_stack)]
             u == Helper_undo(HelperOf(p.w, p.helper_breakpoints, top[2]))
         IN  [p |-> [WithHelper(p, top[2], u.hs) EXCEPT
                        !.handler_stack = SubSeq(@, 1, Len(@) - 1)],
              ret |-> TRUE, directive |-> top[1],
              helper_ret |-> IF u.ret THEN "True" ELSE "False"]

RECURSIVE breakpoint_helpers(_, _, _, _)
breakpoint_helpers(helpers, i, p, name) ==
    IF i > Len(helpers) THEN p
    ELSE breakpoint_helpers(helpers, i + 1,
             WithHelper(p, helpers[i],
                 Helper_breakpoint(HelperOf(p.w, p.helper_breakpoints, helpers[i]), name)),
             name)

Pipeline_breakpoint(helpers, p, name) ==
    breakpoint_helpers(helpers, 1,
        [p EXCEPT !.breakpoints = dict_set(@, name, Len(p.handler_stack))], name)

\* Only the first of the two membership tests.
rollback_known_to_pipeline(helpers, p, name) == name \in DOMAIN p.breakpoints

\* The two membership tests that open Pipeline.rollback; h.breakpoints is the
\* helper's breakpoint table.
rollback_known(helpers, p, name) ==
    /\ name \in DOMAIN p.breakpoints
    /\ \A i \in 1..Len(helpers) : name \in DOMAIN p.helper_breakpoints[helpers[i]]

RECURSIVE rollback_helpers(_, _, _, _)
rollback_helpers(helpers, i, p, name) ==
    IF i > Len(helpers) THEN p
    ELSE rollback_helpers(helpers, i + 1,
             WithHelper(p, helpers[i],
                 Helper_rollback(HelperOf(p.w, p.helper_breakpoints, helpers[i]), name).hs),
             name)

Pipeline_rollback(helpers, p, name) ==
    IF ~rollback_known(helpers, p, name) THEN [p |-> p, ret |-> FALSE]
    ELSE LET stack_depth == p.breakpoints[name]
             rolled == rollback_helpers(helpers, 1,
                           [p EXCEPT !.handler_stack = Prefix(@, stack_depth)], name)
         IN  [p |-> [rolled EXCEPT !.breakpoints = dict_upto(@, stack_depth)],
              ret |-> TRUE]

\* Pipeline.process on the pipeline: the entry process appends goes on
\* handler_stack.
Pipeline_process(helpers, p, directive, arguments) ==
    LET processed(r) ==
            [p |-> [p EXCEPT !.w = r.w,
                             !.handler_stack =
                                 IF r.pushed = << >> THEN @ ELSE Append(@, r.pushed)],
             ret |-> r.ret, results |-> r.results, trace |-> r.trace]
    IN  processed(process(helpers, p.w, directive, arguments))

(***************************************************************************)
(* The engine as a state machine: engine/engine.py builds the pipeline with *)
(* the five helpers, and its process / undo / breakpoint / rollback go to   *)
(* the pipeline.                                                            *)
(***************************************************************************)
TermA == Term("A", << >>)

TermB == Term("B", << >>)

TermC == Term("C", << >>)

Imp == Term("=>", << >>)

Line(directive, args) == [directive |-> directive, args |-> args]

\* The lines given to process.
Inputs ==
    <<Line("Goal", <<Rew(TermA, "=>", TermB)>>),
      Line("Intro", << >>),
      Line("Axiom", <<TermA>>),
      Line("Axiom", <<Term("ax", << >>), Rew(TermA, "=>", TermB)>>),
      Line("Axiom", <<Term("ax", << >>), TermA, TermB, TermC>>),
      Line("Status", << >>),
      Line("Done", << >>),
      Line("By", <<Term("ax", << >>)>>),
      Line("Define", <<Term("d", << >>), TermA>>),
      Line("Start", <<TermA>>),
      Line("Use", <<Rew(TermA, "=>", TermB)>>),
      Line("Clear", << >>),
      Line("Check", << >>),
      Line("Reduce", <<Term("f", <<Term("1", << >>)>>)>>),
      Line("Functorial", <<Imp, Term("f", << >>), Term("0", << >>), Imp, Rew(TermA, "=>", TermB)>>),
      Line("Functorial", <<Term("fn", << >>), Imp, Term("f", << >>), Term("0", << >>), Imp, TermA>>),
      Line("Foo", <<TermA>>)>>

\* The names given to breakpoint and rollback.
Names == {"a", "b"}

\* No more than MaxHist entries on handler_stack, nor snapshots above the
\* initial one on a helper's stack.
MaxHist == 2

VARIABLES
    state,               \* helper -> Helper._state
    state_stack,         \* helper -> Helper._state_stack
    hooks_state,         \* helper -> keys of Helper.hooks_state
    helper_breakpoints,  \* helper -> Helper._breakpoints
    handler_stack,       \* Pipeline.handler_stack, entries <<directive, helper>>
    breakpoints,         \* Pipeline.breakpoints
    last,                \* the last call made and what it returned
    mark,                \* the last breakpoint call, while only process calls followed it
    call                 \* a call of a function of core/, with its arguments and value

vars == <<state, state_stack, hooks_state, helper_breakpoints, handler_stack,
          breakpoints, last, mark, call>>

World == [state |-> state, stack |-> state_stack, hooks |-> hooks_state]

ThePipeline == PipelineOf(World, helper_breakpoints, handler_stack, breakpoints)

\* Helper.__init__ with the initial state each helper's __init__ passes.
InitialState(h) ==
    CASE h = "Alias" -> << >>
      [] h = "Build" -> BuildState(None, None)
      [] h = "Functorial" -> << >>
      [] h = "Peano" -> None
      [] h = "Goal" -> InitialGoalState

NoMark == [name |-> "none"]

\* op: the call; arg: the line's index in Inputs or the breakpoint name;
\* ret: "ok" / "fail" for the flag returned, "raise" for an exception;
\* helper_ret: what Helper.undo returned inside undo; pre: the goal helper's
\* state before a process call (kept through an undo that follows it);
\* marked: a rollback to the mark; moved: the call changed a helper's state;
\* dropped: the breakpoint names a rollback could use before the call and
\* cannot use after it.
Last(op, arg, ret, results, trace, helper_ret, pre, marked, moved, dropped) ==
    [op |-> op, arg |-> arg, ret |-> ret, results |-> results, trace |-> trace,
     helper_ret |-> helper_ret, pre |-> pre, marked |-> marked, moved |-> moved,
     dropped |-> dropped]

NoCall == [fn |-> "none"]

Init ==
    /\ state = [h \in HelperSet |-> InitialState(h)]
    /\ state_stack = [h \in HelperSet |-> <<InitialState(h)>>]
    /\ hooks_state = [h \in HelperSet |-> {}]
    /\ helper_breakpoints = [h \in HelperSet |-> NoBreakpoints]
    /\ handler_stack = << >>
    /\ breakpoints = NoBreakpoints
    /\ last = Last("init", 0, "ok", << >>, << >>, "none", None, FALSE, FALSE, {})
    /\ mark = NoMark
    /\ call = NoCall

Becomes(p) ==
    /\ state' = p.w.state
    /\ state_stack' = p.w.stack
    /\ hooks_state' = p.w.hooks
    /\ helper_breakpoints' = p.helper_breakpoints
    /\ handler_stack' = p.handler_stack
    /\ breakpoints' = p.breakpoints

Room ==
    /\ Len(handler_stack) < MaxHist
    /\ \A h \in HelperSet : Len(state_stack[h]) <= MaxHist

\* Engine.process -> Pipeline.process
Process(i) ==
    /\ Room
    /\ LET returns(r) ==
               /\ Becomes(r.p)
               /\ last' = Last("process", i, r.ret, r.results, r.trace, "none",
                               state["Goal"], FALSE, r.p.w.state # state, {})
       IN  returns(Pipeline_process(Helpers, ThePipeline, Inputs[i].directive,
                                    Inputs[i].args))
    /\ UNCHANGED <<mark, call>>

\* Engine.undo -> Pipeline.undo
Undo ==
    /\ LET returns(r) ==
               /\ Becomes(r.p)
               /\ last' = Last("undo", 0, IF r.ret THEN "ok" ELSE "fail", <<r.directive>>,
                               << >>, r.helper_ret, None, FALSE, r.p.w.state # state, {})
       IN  returns(Pipeline_undo(ThePipeline))
    /\ mark' = NoMark
    /\ UNCHANGED call

\* Engine.breakpoint -> Pipeline.breakpoint
Breakpoint(name) ==
    /\ Becomes(Pipeline_breakpoint(Helpers, ThePipeline, name))
    /\ last' = Last("breakpoint", name, "ok", << >>, << >>, "none", None, FALSE, FALSE, {})
    /\ mark' = [name |-> name, state |-> state]
    /\ UNCHANGED call

\* Engine.rollback -> Pipeline.rollback
Rollback(name) ==
    /\ LET returns(r) ==
               /\ Becomes(r.p)
               /\ last' = Last("rollback", name, IF r.ret THEN "ok" ELSE "fail", << >>,
                               << >>, "none", None, mark.name = name,
                               r.p.w.state # state,
                               {m \in Names : /\ rollback_known(Helpers, ThePipeline, m)
                                              /\ ~rollback_known(Helpers, r.p, m)})
       IN  returns(Pipeline_rollback(Helpers, ThePipeline, name))
    /\ mark' = NoMark
    /\ UNCHANGED call

\* The lines processed between breakpoints and rollbacks: a goal, a named
\* axiom and Status.
MarkedLines == {1, 4, 6}

Next ==
    \/ \E i \in MarkedLines : Process(i)
    \/ Undo
    \/ \E name \in Names : Breakpoint(name)
    \/ \E name \in Names : Rollback(name)

Spec == Init /\ [][Next]_vars

\* The engine given every line of Inputs, and undo.
NextLines ==
    \/ \E i \in 1..Len(Inputs) : Process(i)
    \/ Undo

SpecLines == Init /\ [][NextLines]_vars

\* Engine.breakpoint -> Pipeline.breakpoint, the helpers' states at the call
\* kept under the name through the undo calls that follow.
Mark(name) ==
    /\ Becomes(Pipeline_breakpoint(Helpers, ThePipeline, name))
    /\ last' = Last("breakpoint", name, "ok", << >>, << >>, "none", None, FALSE, FALSE, {})
    /\ mark' = [name |-> name, state |-> state]
    /\ call' = [fn |-> "marked", name |-> name, state |-> state]

\* The name given to breakpoint and rollback when undo is interleaved.
MarkName == "a"

\* process, undo, breakpoint and rollback in any order.
NextMarks ==
    \/ \E i \in MarkedLines : Process(i)
    \/ Undo
    \/ Mark(MarkName)
    \/ Rollback(MarkName)

SpecMarks == Init /\ [][NextMarks]_vars

(***************************************************************************)
(* Object.__eq__ and Object.__hash__ called on pairs of objects: terms,     *)
(* holes, rewritings and compositions over a few atoms, with and without    *)
(* data.                                                                    *)
(***************************************************************************)
\* No more than MaxArgs arguments to a term.
MaxArgs == 2

SomeData == {NoData, with_data(NoData, "result", "r")}

Atoms ==
    {TermD("A", << >>, d) : d \in SomeData} \cup {Term("B", << >>), Hole("A"), Hole("B")}

ArgLists == UNION {[1..n -> Atoms] : n \in 1..MaxArgs}

Objects ==
    Atoms
    \cup {TermD("A", args, d) : args \in ArgLists, d \in SomeData}
    \cup {Rew(l, "=>", r) : l \in Atoms, r \in Atoms}
    \cup {Rew(l, "=", r) : l \in Atoms, r \in Atoms}
    \cup {Comp(l, r) : l \in Atoms, r \in Atoms}
    \cup {Comp(TermD("A", <<l>>, d), r) : l \in Atoms, d \in SomeData, r \in Atoms}

InitObjects ==
    /\ state = [h \in HelperSet |-> InitialState(h)]
    /\ state_stack = [h \in HelperSet |-> <<InitialState(h)>>]
    /\ hooks_state = [h \in HelperSet |-> {}]
    /\ helper_breakpoints = [h \in HelperSet |-> NoBreakpoints]
    /\ handler_stack = << >>
    /\ breakpoints = NoBreakpoints
    /\ last = Last("init", 0, "ok", << >>, << >>, "none", None, FALSE, FALSE, {})
    /\ mark = NoMark
    /\ call \in {[fn |-> "pending", args |-> <<a, b>>] : a \in Objects, b \in Objects}

\* a == b, hash(a), hash(b)
Compare ==
    /\ call.fn = "pending"
    /\ call' = [fn |-> "compared", args |-> call.args,
                eq |-> ObjEq(call.args[1], call.args[2]),
                hashes |-> <<ObjHash(call.args[1]), ObjHash(call.args[2])>>]
    /\ UNCHANGED <<state, state_stack, hooks_state, helper_breakpoints, handler_stack,
                   breakpoints, last, mark>>

NextObjects == Compare

SpecObjects == InitObjects /\ [][NextObjects]_vars

(***************************************************************************)
(* Properties of the breakpoint / rollback / undo history.                  *)
(***************************************************************************)
\* C1: when only process calls were made since breakpoint(name), a
\* rollback(name) that returns true leaves every helper's state equal to the
\* state it had when breakpoint(name) was called.
C1_RollbackRestores ==
    [][(last'.op = "rollback" /\ last'.ret = "ok" /\ last'.marked)
          => state' = mark.state]_vars

\* A rollback to the mark returned true and moved some helper's state back.
C1_Witness ==
    /\ last.op = "rollback"
    /\ last.ret = "ok"
    /\ last.marked
    /\ last.moved

\* The (proof term, context) pair of two goal helper states, compared as
\* Object.__eq__ compares.
SeqEq(s, t) == Len(s) = Len(t) /\ \A i \in 1..Len(s) : ObjEq(s[i], t[i])

GoalPairEq(s, t) ==
    /\ ObjEq(s.goal, t.goal)
    /\ DOMAIN s.generic_context = DOMAIN t.generic_context
    /\ \A k \in DOMAIN s.generic_context : SeqEq(s.generic_context[k], t.generic_context[k])

\* C2: an undo that immediately follows a directive processed with success
\* leaves the goal helper's (proof term, context) pair as it was just before
\* that directive was processed.
C2_UndoRestoresGoal ==
    [][(last.op = "process" /\ last.ret = "ok" /\ last'.op = "undo")
          => GoalPairEq(state'["Goal"], last.pre)]_vars

\* C3: the entry a directive appends to handler_stack stands for exactly one
\* snapshot, pushed during that directive on that helper's stack, and no other
\* helper changed while the directive was processed.
C3_EntryIsOneSnapshot ==
    [][(last'.op = "process" /\ Len(handler_stack') = Len(handler_stack) + 1)
          => LET h == handler_stack'[Len(handler_stack')][2]
             IN  /\ state_stack'[h] = Append(state_stack[h], state'[h])
                 /\ \A g \in HelperSet \ {h} :
                        state_stack'[g] = state_stack[g] /\ state'[g] = state[g]]_vars

\* C4: a directive processed with success = false leaves every helper's state
\* and stack as they were.
C4_FailureChangesNothing ==
    [][(last'.op = "process" /\ last'.ret = "fail")
          => state' = state /\ state_stack' = state_stack]_vars

(***************************************************************************)
(* Properties of one process call, read off the calls it made.              *)
(***************************************************************************)
\* The hooks registered for a directive, helper by helper in the order of
\* Helpers, each with its helper.
RECURSIVE HooksInOrder(_, _)
HooksInOrder(directive, i) ==
    IF i > Len(Helpers) THEN << >>
    ELSE LET hooks == get_hooks(Helpers[i], directive)
         IN  [j \in 1..Len(hooks) |->
                 [helper |-> Helpers[i], forhook |-> hooks[j].forhook,
                  backhook |-> hooks[j].backhook]]
             \o HooksInOrder(directive, i + 1)

\* The helpers, by position, that registered a handler for the directive.
Owners(directive) ==
    {i \in 1..Len(Helpers) :
        \E k \in 1..Len(RegisteredHandlers(Helpers[i])) :
            RegisteredHandlers(Helpers[i])[k].directive = directive}

Reverse(s) == [i \in 1..Len(s) |-> s[Len(s) + 1 - i]]

\* Each call of the sequence takes what the one before it gave, the first one
\* taking `first`; the value is what the last one gave.
Threaded(calls, first) ==
    /\ Len(calls) > 0 => calls[1].input = first
    /\ \A i \in 2..Len(calls) : calls[i].input = calls[i - 1].output

Given(calls, first) == IF Len(calls) = 0 THEN first ELSE calls[Len(calls)].output

OrderedCalls(directive, arguments, results, trace) ==
    LET expected == HooksInOrder(directive, 1)
        with_backhook == Reverse(SelectSeq(expected, LAMBDA e : e.backhook # "none"))
        forhooks == SelectSeq(trace, LAMBDA c : c.kind = "forhook")
        handlers == SelectSeq(trace, LAMBDA c : c.kind = "handler")
        backhooks == SelectSeq(trace, LAMBDA c : c.kind = "backhook")
    IN  /\ trace = forhooks \o handlers \o backhooks
        /\ Len(forhooks) = Len(expected)
        /\ \A i \in 1..Len(expected) :
               /\ forhooks[i].helper = expected[i].helper
               /\ forhooks[i].name = expected[i].forhook
        /\ Threaded(forhooks, arguments)
        /\ IF Owners(directive) = {}
           THEN handlers = << >> /\ backhooks = << >>
           ELSE /\ Len(handlers) = 1
                /\ handlers[1].helper =
                       Helpers[CHOOSE i \in Owners(directive) :
                                   \A j \in Owners(directive) : i <= j]
                /\ handlers[1].input = Given(forhooks, arguments)
                /\ Len(backhooks) = Len(with_backhook)
                /\ \A i \in 1..Len(with_backhook) :
                       /\ backhooks[i].helper = with_backhook[i].helper
                       /\ backhooks[i].name = with_backhook[i].backhook
                /\ Threaded(backhooks, handlers[1].output)
                /\ results = Given(backhooks, handlers[1].output)

\* C5: in a process call that returns, every forhook registered for the
\* directive runs first, helpers in registration order (Alias, Build,
\* Functorial, Peano, Goal), each given the arguments the one before produced;
\* then the handler of the first helper owning the directive runs once on the
\* final arguments; then the backhooks run on its results in the reverse of
\* the order their forhooks ran in.
C5_HooksInOrder ==
    (last.op = "process" /\ last.ret # "raise")
        => OrderedCalls(Inputs[last.arg].directive, Inputs[last.arg].args,
                        last.results, last.trace)

\* A call that ran three backhooks, of three helpers.
C5_Witness ==
    /\ last.op = "process"
    /\ last.ret # "raise"
    /\ LET backhooks == SelectSeq(last.trace, LAMBDA c : c.kind = "backhook")
       IN  /\ Len(backhooks) = 3
           /\ Cardinality({backhooks[i].helper : i \in 1..3}) = 3

\* A rollback to `name` can go ahead: the pipeline and every helper have it.
Usable(name, pipeline_breakpoints, per_helper) ==
    /\ name \in DOMAIN pipeline_breakpoints
    /\ \A h \in HelperSet : name \in DOMAIN per_helper[h]

\* C6: rollback(name) returns false and changes nothing unless the pipeline
\* and every helper have the name recorded; when it returns true the
\* handler_stack and every helper's stack are cut to the depths recorded.
C6_RollbackAllOrNothing ==
    [][last'.op = "rollback"
          => LET name == last'.arg
             IN  IF Usable(name, breakpoints, helper_breakpoints)
                 THEN /\ last'.ret = "ok"
                      /\ handler_stack' = Prefix(handler_stack, breakpoints[name])
                      /\ \A h \in HelperSet :
                             /\ state_stack'[h] =
                                    Prefix(state_stack[h], helper_breakpoints[h][name] + 1)
                             /\ state'[h] = state_stack'[h][Len(state_stack'[h])]
                 ELSE /\ last'.ret = "fail"
                      /\ UNCHANGED <<state, state_stack, helper_breakpoints,
                                     handler_stack, breakpoints>>]_vars

\* A rollback returned false for a name the pipeline has and a helper lacks.
C6_Witness ==
    /\ last.op = "rollback"
    /\ last.ret = "fail"
    /\ last.arg \in DOMAIN breakpoints
    /\ \E h \in HelperSet : last.arg \notin DOMAIN helper_breakpoints[h]

\* m was recorded deeper than name on the handler_stack or on a helper's stack.
Deeper(m, name) ==
    \/ breakpoints[m] > breakpoints[name]
    \/ \E h \in HelperSet : helper_breakpoints[h][m] > helper_breakpoints[h][name]

\* C7: after a rollback(name) that returns true, every breakpoint recorded
\* deeper than name is discarded (a rollback to it returns false), and every
\* breakpoint recorded no deeper, name included, is kept with its depths.
C7_DeeperDiscarded ==
    [][(last'.op = "rollback" /\ last'.ret = "ok")
          => \A m \in Names :
                 Usable(m, breakpoints, helper_breakpoints)
                     => IF Deeper(m, last'.arg)
                        THEN ~Usable(m, breakpoints', helper_breakpoints')
                        ELSE /\ Usable(m, breakpoints', helper_breakpoints')
                             /\ breakpoints'[m] = breakpoints[m]
                             /\ \A h \in HelperSet :
                                    helper_breakpoints'[h][m] = helper_breakpoints[h][m]]_vars

\* A rollback returned true, discarded a breakpoint and kept its own.
C7_Witness ==
    /\ last.op = "rollback"
    /\ last.ret = "ok"
    /\ last.dropped # {}
    /\ Usable(last.arg, breakpoints, helper_breakpoints)

\* C8: Helper.undo on a helper holding only its initial snapshot returns
\* false and leaves the helper as it was; Pipeline.undo with an empty
\* handler_stack returns (false, None) and leaves every helper as it was.
C8_UndoAtBottom ==
    [][last'.op = "undo"
          => IF Len(handler_stack) = 0
             THEN /\ last'.ret = "fail"
                  /\ last'.results = <<"none">>
                  /\ UNCHANGED <<state, state_stack, handler_stack>>
             ELSE LET h == handler_stack[Len(handler_stack)][2]
                  IN  Len(state_stack[h]) <= 1
                          => /\ last'.helper_ret = "False"
                             /\ UNCHANGED <<state, state_stack>>]_vars

\* An undo reached a helper holding only its initial snapshot while another
\* helper held more.
C8_Witness ==
    /\ last.op = "undo"
    /\ last.helper_ret = "False"
    /\ \E h \in HelperSet : Len(state_stack[h]) > 1

\* C9: process of a directive no helper has a handler for returns
\* (false, [Error]) without raising, appends nothing to handler_stack and
\* leaves every helper's state and stack as they were.
C9_UnknownDirective ==
    [][(last'.op = "process" /\ Owners(Inputs[last'.arg].directive) = {})
          => /\ last'.ret = "fail"
             /\ Len(last'.results) = 1
             /\ last'.results[1].handle = "Error"
             /\ UNCHANGED <<state, state_stack, handler_stack>>]_vars

\* An unknown directive was processed with entries on the handler_stack.
C9_Witness ==
    /\ last.op = "process"
    /\ Owners(Inputs[last.arg].directive) = {}
    /\ last.ret = "fail"
    /\ Len(handler_stack) > 0

(***************************************************************************)
(* Properties of Object.__eq__ and Object.__hash__.                         *)
(***************************************************************************)
\* The object without its data, and its children without theirs.
RECURSIVE Bare(_)
Bare(obj) ==
    [type |-> obj.type, handle |-> obj.handle,
     children |-> [i \in 1..Len(obj.children) |-> Bare(obj.children[i])]]

(***************************************************************************)
(* The engine given the lines of a proof: goals, Intro, By with and without *)
(* the force marker, Done, axioms and a working term.                       *)
(***************************************************************************)
ProofLines ==
    <<Line("Axiom", <<Rew(TermA, "=>", TermB)>>),
      Line("Goal", <<Rew(TermA, "=>", TermB)>>),
      Line("Intro", << >>),
      Line("By", <<Rew(TermA, "=>", TermB)>>),
      Line("Done", << >>),
      Line("By", <<Rew(TermA, "=>", TermB), Term("force", << >>)>>),
      Line("Start", <<TermB>>),
      Line("By", <<TermA>>),
      Line("Axiom", <<Term("<=>", << >>), TermA>>),
      Line("By", <<Rew(TermA, "=>", TermA)>>),
      Line("By", <<Rew(TermC, "=>", Rew(TermA, "=>", TermB)), Term("force", << >>)>>)>>

\* The lines of scenario 3, in its order: an axiom, the goal, Intro, By, Done.
ScenarioLines == <<1, 2, 3, 4, 5>>

\* The lines that set a goal and give axioms.
ContextLines == {1, 2, 3, 9}

\* No more than MaxProof lines of a proof and MaxContext lines on the context
\* are given.
MaxProof == 5

MaxContext == 4

\* Engine.process -> Pipeline.process on a line of ProofLines, while fewer
\* than `most` lines were given.
Prove(i, most) ==
    /\ Len(handler_stack) < most
    /\ \A h \in HelperSet : Len(state_stack[h]) <= most
    /\ LET returns(r) ==
               /\ Becomes(r.p)
               /\ last' = Last("process", i, r.ret, r.results, r.trace, "none",
                               state, FALSE, r.p.w.state # state, {})
       IN  returns(Pipeline_process(Helpers, ThePipeline, ProofLines[i].directive,
                                    ProofLines[i].args))
    /\ UNCHANGED <<mark, call>>

NextProof == \E i \in 1..Len(ProofLines) : Prove(i, MaxProof)

SpecProof == Init /\ [][NextProof]_vars

NextContext ==
    \/ \E i \in ContextLines : Prove(i, MaxContext)
    \/ Undo

SpecContext == Init /\ [][NextContext]_vars

(***************************************************************************)
(* The engine given the lines of a forward construction: Start, Use with    *)
(* and without positions, Functorial and Clear, with undo; and wrap_rule    *)
(* called on its own in the states they reach.                              *)
(***************************************************************************)
TermFA == Term("f", <<TermA>>)

\* ([a] => [b]) => (f([a]) => f([b]))
FunctorialRule ==
    Rew(Rew(Hole("a"), "=>", Hole("b")), "=>",
        Rew(Term("f", <<Hole("a")>>), "=>", Term("f", <<Hole("b")>>)))

BuildLines ==
    <<Line("Start", <<TermFA>>),
      Line("Start", <<TermA>>),
      Line("Functorial", <<Imp, Term("f", << >>), Term("0", << >>), Imp, FunctorialRule>>),
      Line("Use", <<Rew(TermA, "=>", TermB)>>),
      Line("Use", <<Rew(TermA, "=>", TermB), Term("0", << >>)>>),
      Line("Use", <<Rew(TermA, "=>", TermB), Term("1", << >>)>>),
      Line("Use", <<Rew(TermFA, "=>", TermB)>>),
      Line("Clear", << >>),
      Line("Use", <<Rew(TermB, "=>", TermC)>>)>>

\* The rules and the position lists wrap_rule is called with.
WrapRules == {Rew(TermA, "=>", TermB), TermA, FunctorialRule}

WrapPositions == {<< >>, <<0>>}

\* No more than MaxBuild lines of a construction are given.
MaxBuild == 3

\* Engine.process -> Pipeline.process on a line of BuildLines.
Construct(i) ==
    /\ Len(handler_stack) < MaxBuild
    /\ \A h \in HelperSet : Len(state_stack[h]) <= MaxBuild
    /\ LET returns(r) ==
               /\ Becomes(r.p)
               /\ last' = Last("process", i, r.ret, r.results, r.trace, "none",
                               state, FALSE, r.p.w.state # state, {})
       IN  returns(Pipeline_process(Helpers, ThePipeline, BuildLines[i].directive,
                                    BuildLines[i].args))
    /\ UNCHANGED <<mark, call>>

\* FunctorialHelper.wrap_rule(rule, positions) called in the current state.
WrapRule(rule, positions) ==
    /\ call' = [fn |-> "wrapped", rule |-> rule, positions |-> positions,
                state |-> state, result |-> wrap_rule(World, rule, positions)]
    /\ UNCHANGED <<state, state_stack, hooks_state, helper_breakpoints, handler_stack,
                   breakpoints, last, mark>>

\* wrap_rule changes nothing: the lines are given before it is called.
NextBuild ==
    \/ call = NoCall /\ \E i \in 1..Len(BuildLines) : Construct(i)
    \/ call = NoCall /\ Undo
    \/ \E rule \in WrapRules, positions \in WrapPositions : WrapRule(rule, positions)

SpecBuild == Init /\ [][NextBuild]_vars

(***************************************************************************)
(* The engine given lines whose arguments name aliases: Axiom and           *)
(* Functorial with and without a leading name, after Define.                *)
(***************************************************************************)
TermD1 == Term("d", << >>)

AliasLines ==
    <<Line("Define", <<TermD1, TermA>>),
      Line("Axiom", <<Term("ax", << >>), Rew(TermD1, "=>", TermB)>>),
      Line("Axiom", <<TermD1>>),
      Line("Axiom", <<Term("ax", << >>), Term("ax", << >>)>>),
      Line("Functorial", <<Term("fn", << >>), Imp, Term("f", << >>), Term("0", << >>), Imp,
                           TermD1>>),
      Line("Functorial", <<Imp, Term("f", << >>), Term("0", << >>), Imp, FunctorialRule>>),
      Line("Goal", <<Rew(TermD1, "=>", TermB)>>)>>

\* No more than MaxExpand entries on handler_stack, nor snapshots above the
\* initial one on a helper's stack.
MaxExpand == 3

\* Engine.process -> Pipeline.process on a line of AliasLines.
Expand(i) ==
    /\ Len(handler_stack) < MaxExpand
    /\ \A h \in HelperSet : Len(state_stack[h]) <= MaxExpand
    /\ LET returns(r) ==
               /\ Becomes(r.p)
               /\ last' = Last("process", i, r.ret, r.results, r.trace, "none",
                               state, FALSE, r.p.w.state # state, {})
       IN  returns(Pipeline_process(Helpers, ThePipeline, AliasLines[i].directive,
                                    AliasLines[i].args))
    /\ UNCHANGED <<mark, call>>

NextAlias ==
    \/ \E i \in 1..Len(AliasLines) : Expand(i)
    \/ Undo

SpecAlias == Init /\ [][NextAlias]_vars

(***************************************************************************)
(* The core operations called on their own: a call is drawn, the operation  *)
(* runs and leaves its result in `call`.  The engine stays as constructed.   *)
(***************************************************************************)
CoreAtoms == {Term("A", << >>), Term("B", << >>), Hole("x"), Hole("y")}

CoreTerms ==
    CoreAtoms \cup {Term("f", args) : args \in UNION {[1..n -> CoreAtoms] : n \in 1..MaxArgs}}

\* The terms without holes: the concrete side of match_left.
Concrete == {t \in CoreTerms : get_hole_names(t) = {}}

Pending(fn, args) == [fn |-> "pending", op |-> fn, args |-> args]

\* The sides of the rewritings composed: holes named x, x' and y.
RewSides ==
    {Term("A", << >>), Hole("x"), Hole("x'"), Hole("y"), Term("f", <<Hole("x")>>),
     Term("f", <<Hole("y")>>), Term("f", <<Hole("x"), Hole("x'")>>)}

CoreRews ==
    {Rew(l, "=>", r) : l \in RewSides, r \in RewSides}
    \cup {Rew(Hole("x"), "=", Hole("x")), Term("A", << >>)}

\* The values of max_steps tried besides the default: 1..MaxTried.
MaxTried == 2

\* Terms to reduce: with no composition, with one that one pass reduces, with
\* one that fails, with one that takes two passes, and inside a rewriting.
ReduceTerms ==
    {Term("A", << >>), Term("f", <<Hole("x")>>)}
    \cup {Comp(a, r) : a \in {Term("A", << >>), Term("f", <<Term("A", << >>)>>)},
                       r \in {Rew(Term("A", << >>), "=>", Term("B", << >>)),
                              Rew(Hole("x"), "=>", Term("f", <<Hole("x")>>)),
                              Rew(Term("f", <<Hole("y")>>), "=>", Hole("y"))}}
    \cup {Comp(Comp(Term("A", << >>), Rew(Term("A", << >>), "=>", Term("B", << >>))),
                Rew(Term("B", << >>), "=>", Term("A", << >>))),
          Comp(Rew(Term("A", << >>), "=", Term("B", << >>)),
               Rew(Hole("r"), "=>", Comp(Term("A", << >>), Hole("r")))),
          Rew(Comp(Term("A", << >>), Rew(Term("A", << >>), "=>", Term("B", << >>))),
              "=>", Term("B", << >>))}

\* The rules checked: sides that are plain, reducible, compositions of
\* buildable parts, and rules.
CheckSides ==
    {Term("A", << >>), Term("B", << >>),
     Comp(Term("A", << >>), Rew(Term("A", << >>), "=>", Term("B", << >>))),
     Comp(Term("A", << >>), Term("B", << >>)),
     Rew(Term("B", << >>), "=>", Term("A", << >>))}

\* The longest bucket of a context checked against.
MaxBucket == 2

CheckContexts ==
    {NoContext}
    \cup {[k \in {"=>"} |-> bucket] :
              bucket \in UNION {[1..n -> CheckSides] : n \in 1..MaxBucket}}

PendingCalls ==
    {Pending("match", <<a, b>>) : a \in CoreTerms, b \in CoreTerms}
    \cup {Pending("match_left", <<a, b>>) : a \in Concrete, b \in CoreTerms}
    \cup {Pending("compose_rews", <<a, b>>) : a \in CoreRews, b \in CoreRews}
    \cup {Pending("compose", <<a, b>>) : a \in CoreRews \cup RewSides, b \in CoreRews}
    \cup {[fn |-> "pending", op |-> "check", args |-> <<Rew(l, "=>", r)>>, rule |-> rule,
            context |-> context] :
              l \in CheckSides, r \in CheckSides, rule \in {NoHandle, "=>"},
              context \in CheckContexts}
    \cup {[fn |-> "pending", op |-> "check", args |-> <<Comp(l, r)>>, rule |-> rule,
            context |-> context] :
              l \in CheckSides, r \in CheckSides, rule \in {NoHandle, "=>"},
              context \in CheckContexts}
    \cup {[fn |-> "pending", op |-> "reduce", args |-> <<t>>, max_steps |-> n] :
              t \in ReduceTerms, n \in 1..MaxTried \cup {MaxSteps}}

InitCore ==
    /\ state = [h \in HelperSet |-> InitialState(h)]
    /\ state_stack = [h \in HelperSet |-> <<InitialState(h)>>]
    /\ hooks_state = [h \in HelperSet |-> {}]
    /\ helper_breakpoints = [h \in HelperSet |-> NoBreakpoints]
    /\ handler_stack = << >>
    /\ breakpoints = NoBreakpoints
    /\ last = Last("init", 0, "ok", << >>, << >>, "none", None, FALSE, FALSE, {})
    /\ mark = NoMark
    /\ call \in PendingCalls

EngineIdle ==
    UNCHANGED <<state, state_stack, hooks_state, helper_breakpoints, handler_stack,
                breakpoints, last, mark>>

\* assignments = match(A, B)
Match ==
    /\ call.fn = "pending" /\ call.op = "match"
    /\ call' = [fn |-> "matched", op |-> "match", args |-> call.args,
                found |-> match(call.args[1], call.args[2], NoAsg)]
    /\ EngineIdle

\* assignments = match_left(A, B)
MatchLeft ==
    /\ call.fn = "pending" /\ call.op = "match_left"
    /\ call' = [fn |-> "matched", op |-> "match_left", args |-> call.args,
                found |-> match_left(call.args[1], call.args[2])]
    /\ EngineIdle

\* apply(A, assignments), apply(B, assignments) with the map a match returned,
\* and apply once more on what the first pass returned.
Apply ==
    /\ \/ call.fn = "matched" /\ call.found.ok
       \/ call.fn = "applied" /\ call.passes = 1
    /\ call' = [fn |-> "applied", op |-> call.op, args |-> call.args, found |-> call.found,
                passes |-> IF call.fn = "matched" THEN 1 ELSE 2,
                before |-> IF call.fn = "matched" THEN call.args ELSE call.terms,
                terms |-> IF call.fn = "matched"
                          THEN <<apply(call.args[1], call.found.asg),
                                 apply(call.args[2], call.found.asg)>>
                          ELSE <<apply(call.terms[1], call.found.asg),
                                 apply(call.terms[2], call.found.asg)>>]
    /\ EngineIdle

\* compose_rews(A, B); the loop `for hole_name in holes_B` iterates a set of
\* strings, in any order.
ComposeRews ==
    /\ call.fn = "pending" /\ call.op = "compose_rews"
    /\ \E order \in Orders(get_hole_names(call.args[2])) :
           call' = [fn |-> "composed", op |-> "compose_rews", args |-> call.args,
                    order |-> order,
                    result |-> compose_rews_in(call.args[1], call.args[2], order)]
    /\ EngineIdle

\* compose(A, B)
Compose ==
    /\ call.fn = "pending" /\ call.op = "compose"
    /\ call' = [fn |-> "composed", op |-> "compose", args |-> call.args,
                result |-> compose(call.args[1], call.args[2])]
    /\ EngineIdle

\* reduce(term, max_steps)
Reduce ==
    /\ call.fn = "pending" /\ call.op = "reduce"
    /\ call' = [fn |-> "reduced", op |-> "reduce", args |-> call.args,
                max_steps |-> call.max_steps,
                result |-> reduce_from(call.args[1], call.max_steps)]
    /\ EngineIdle

\* check(obj, rule, context)
Check ==
    /\ call.fn = "pending" /\ call.op = "check"
    /\ call' = [fn |-> "checked", op |-> "check", args |-> call.args, rule |-> call.rule,
                context |-> call.context,
                result |-> check(call.args[1], call.rule, call.context)]
    /\ EngineIdle

NextCore == Match \/ MatchLeft \/ Apply \/ ComposeRews \/ Compose \/ Reduce \/ Check

SpecCore == InitCore /\ [][NextCore]_vars

(***************************************************************************)
(* The conversions of the alias and the Peano helper called on their own:   *)
(* a call is drawn, the conversions are run on it and what they return is   *)
(* recorded.                                                                *)
(***************************************************************************)
\* No more than MaxAliases aliases in a table; the numbers 0..MaxNumber.
MaxAliases == 2

MaxNumber == 12

AliasNames == {"d", "e"}

\* f(A) whose child carries the tag of an earlier expansion of e.
TaggedChild ==
    Term("f", <<TermD("A", << >>,
                      with_data(with_data(NoData, "alias", "e"), "alias_hash",
                                ObjHash(TermA)))>>)

AliasDefinitions ==
    {TermA, TermFA, Rew(TermA, "=>", TermB), Term("e", << >>), TaggedChild}

\* The alias tables with_alias builds: no name twice.
AliasTables ==
    {st \in UNION {[1..n -> {<<name, obj>> : name \in AliasNames, obj \in AliasDefinitions}] :
                       n \in 0..MaxAliases} :
        \A i, j \in 1..Len(st) : i # j => st[i][1] # st[j][1]}

AliasTerms ==
    {Term("d", << >>), Term("e", << >>), TermA,
     TermD("d", << >>, with_data(NoData, "result", "r")),
     Term("f", <<Term("d", << >>)>>),
     Term("d", <<Term("e", << >>)>>),
     Hole("d"),
     Rew(Term("d", << >>), "=>", Term("e", << >>)),
     Comp(Term("f", <<Term("d", << >>), TermA>>), Term("d", << >>))}

\* What a tagged node has become by the time it is restored.
ChangedTerms ==
    {TermA, TermB, TermFA, Term("f", <<TermB>>), Term("f", <<Term("e", << >>)>>),
     Rew(TermA, "=>", TermB), Term("e", << >>)}

\* The Objects a literal is put in: alone, under a term, a rewriting and a
\* composition, under one and under two terms named S with one argument, and
\* under a term named S with two arguments.
PeanoContexts == {"alone", "f", "Rew", "Comp", "S", "SS", "S2"}

Around(context, obj) ==
    CASE context = "alone" -> obj
      [] context = "f" -> Term("f", <<TermA, obj>>)
      [] context = "Rew" -> Rew(obj, "=>", Term("f", <<obj>>))
      [] context = "Comp" -> Comp(TermA, obj)
      [] context = "S" -> Term("S", <<obj>>)
      [] context = "SS" -> Term("S", <<Term("S", <<obj>>)>>)
      [] context = "S2" -> Term("S", <<obj, TermA>>)

Literal(n) == TermD(str(n), << >>, with_data(NoData, "result", "r"))

PendingConversions ==
    {[fn |-> "to alias", table |-> st, term |-> t] : st \in AliasTables, t \in AliasTerms}
    \cup {[fn |-> "to change", table |-> st, name |-> name, changed |-> s] :
              st \in AliasTables, name \in AliasNames, s \in ChangedTerms}
    \cup {[fn |-> "to peano", n |-> n, context |-> c] :
              n \in 0..MaxNumber, c \in PeanoContexts}

InitConversions ==
    /\ state = [h \in HelperSet |-> InitialState(h)]
    /\ state_stack = [h \in HelperSet |-> <<InitialState(h)>>]
    /\ hooks_state = [h \in HelperSet |-> {}]
    /\ helper_breakpoints = [h \in HelperSet |-> NoBreakpoints]
    /\ handler_stack = << >>
    /\ breakpoints = NoBreakpoints
    /\ last = Last("init", 0, "ok", << >>, << >>, "none", None, FALSE, FALSE, {})
    /\ mark = NoMark
    /\ call \in PendingConversions

\* restore_aliases(apply_aliases(term)) with the table as the helper's state
AliasRoundTrip ==
    /\ call.fn = "to alias"
    /\ LET restoring(applied) ==
               call' = [fn |-> "alias", table |-> call.table, term |-> call.term,
                        applied |-> applied, restored |-> restore_aliases(applied)]
       IN  restoring(apply_aliases(call.table, call.term))
    /\ EngineIdle

\* restore_aliases on the node apply_aliases tagged for a name, once its
\* structure has become that of call.changed
AliasRestoreChanged ==
    /\ call.fn = "to change"
    /\ LET restoring(tagged) ==
               call' = [fn |-> "changed", table |-> call.table, name |-> call.name,
                        changed |-> call.changed, tagged |-> tagged,
                        restored |-> restore_aliases(
                            Object(call.changed.type, call.changed.children,
                                   call.changed.handle, tagged.data))]
       IN  restoring(apply_aliases(call.table, Term(call.name, << >>)))
    /\ EngineIdle

\* peano_to_integer(integer_to_peano(term)) on the literal of n in a context
PeanoRoundTrip ==
    /\ call.fn = "to peano"
    /\ LET decoding(encoded) ==
               call' = [fn |-> "peano", n |-> call.n, context |-> call.context,
                        literal |-> integer_to_peano(Literal(call.n)),
                        encoded |-> encoded, decoded |-> peano_to_integer(encoded)]
       IN  decoding(integer_to_peano(Around(call.context, Literal(call.n))))
    /\ EngineIdle

NextConversions ==
    \/ AliasRoundTrip
    \/ AliasRestoreChanged
    \/ PeanoRoundTrip

SpecConversions == InitConversions /\ [][NextConversions]_vars

\* C10: two objects are equal exactly when they have the same type, the same
\* handle and pairwise equal children, whatever their data; and equal objects
\* have equal hashes.
C10_EqualityIgnoresData ==
    call.fn = "compared"
        => /\ call.eq <=> Bare(call.args[1]) = Bare(call.args[2])
           /\ call.eq => call.hashes[1] = call.hashes[2]

\* Two objects compared equal whose data differ, one of them inside a child.
C10_Witness ==
    /\ call.fn = "compared"
    /\ call.eq
    /\ call.args[1] # call.args[2]
    /\ Len(call.args[1].children) > 0
    /\ call.args[1].data = call.args[2].data

\* C11: apply is idempotent on the maps match and match_left return: the
\* applied term holds no hole whose name is a key of the map, and applying
\* the map a second time returns an equal term.
C11_ApplyIdempotent ==
    call.fn = "applied"
        => \A i \in 1..2 :
               /\ get_hole_names(call.terms[i]) \cap DOMAIN call.found.asg = {}
               /\ call.passes = 2 => ObjEq(call.terms[i], call.before[i])

\* The pairs <<hole name, subterm of A>> at the positions where a hole of the
\* pattern B faces a subterm of A.
RECURSIVE Facing(_, _)
Facing(A, B) ==
    IF B.type = "Hole" THEN {<<B.handle, Bare(A)>>}
    ELSE IF A.type # B.type \/ A.handle # B.handle \/ Len(A.children) # Len(B.children)
    THEN {}
    ELSE UNION {Facing(A.children[i], B.children[i]) : i \in 1..Len(B.children)}

\* C12: match_left(concrete, pattern) returns no match when one hole name of
\* the pattern faces two unequal subterms of the concrete term, and when it
\* returns a map, the map applied to the pattern gives the concrete term.
C12_MatchLeftConsistent ==
    call.op = "match_left"
        => /\ (/\ call.fn = "matched"
               /\ \E p, q \in Facing(call.args[1], call.args[2]) :
                      p[1] = q[1] /\ p[2] # q[2])
              => ~call.found.ok
           /\ call.fn = "applied" /\ call.passes = 1
              => ObjEq(call.terms[2], call.args[1])

\* C13: match(A, B) returns a unifier: the map it returns, applied to A and
\* to B, gives equal terms.  Stated for the operands that share no hole name,
\* the case the callers arrange by renaming.
C13_MatchUnifies ==
    /\ call.op = "match" /\ call.fn = "applied" /\ call.passes = 1
    /\ get_hole_names(call.args[1]) \cap get_hole_names(call.args[2]) = {}
    => ObjEq(call.terms[1], call.terms[2])

\* The names a renaming of holes may use.
HoleNames == {"x", "x'", "x''", "x'''", "y", "y'"}

\* The renamings of B's holes apart from A's: every hole of B gets a name
\* that A does not have.
RenamedApart(A, B) ==
    {rho \in [get_hole_names(B) -> HoleNames] :
        \A h \in get_hole_names(B) : rho[h] \notin get_hole_names(A)}

ComposedWith(A, B_renamed, m) ==
    IF m.ok
    THEN Rew(apply(A.children[1], m.asg), A.handle, apply(B_renamed.children[2], m.asg))
    ELSE None

ComposedVia(A, B_renamed) ==
    ComposedWith(A, B_renamed, match(A.children[2], B_renamed.children[1], NoAsg))

InjectiveRenamings ==
    {sigma \in [{"x", "x'", "y"} -> {"x", "x'", "y", "z"}] :
        \A h, k \in DOMAIN sigma : sigma[h] = sigma[k] => h = k}

\* r1 and r2 are both None, or equal up to an injective renaming of holes.
SameUpToRenaming(r1, r2) ==
    IF r1 = None \/ r2 = None THEN r1 = r2
    ELSE \E tau \in [get_hole_names(r1) -> get_hole_names(r2)] :
            /\ \A h, k \in DOMAIN tau : tau[h] = tau[k] => h = k
            /\ ObjEq(rename_holes(r1, tau), r2)

\* The name the loop over holes_B gives to the hole h of B.
RenamedTo(st, h) == IF h \in DOMAIN st.map THEN st.map[h] ELSE h

KeepsHolesApart(A, B, order, st) ==
    \A h, k \in get_hole_names(B) : RenamedTo(st, h) = RenamedTo(st, k) => h = k

\* C15: compose_rews does not depend on the names of the holes: an injective
\* renaming applied to both operands leaves success and failure as they were
\* and changes the result by a renaming only; the renaming of B's holes never
\* gives one name to two distinct holes of B.
C15_RenamingInvariant ==
    /\ call.fn = "composed" /\ call.op = "compose_rews"
    /\ call.args[1].type = "Rew" /\ call.args[2].type = "Rew"
    /\ call.args[1].handle = call.args[2].handle
    => /\ KeepsHolesApart(call.args[1], call.args[2], call.order,
              rename_loop(call.order, 1,
                  [map |-> [k \in {} |-> ""], reserved |-> get_hole_names(call.args[1])]))
       /\ \A sigma \in InjectiveRenamings :
              \A order \in Orders(get_hole_names(rename_holes(call.args[2], sigma))) :
                  SameUpToRenaming(call.result,
                      compose_rews_in(rename_holes(call.args[1], sigma),
                                      rename_holes(call.args[2], sigma), order))

\* C16: a rewriting returned by compose_rews names its holes with the names
\* of the operands' holes; no name made by the renaming step is left in it.
C16_OriginalNames ==
    call.fn = "composed" /\ call.op = "compose_rews" /\ call.result # None
        => get_hole_names(call.result)
               \subseteq get_hole_names(call.args[1]) \cup get_hole_names(call.args[2])

\* C17: compose(A, B) is compose_rews(A, B) when that is not None; otherwise
\* it is R.right when R = compose_rews(identify(A, B.symbol), B) is not None;
\* otherwise it is None.
C17_Compose ==
    call.fn = "composed" /\ call.op = "compose"
        => IF compose_rews(call.args[1], call.args[2]) # None
           THEN call.result = compose_rews(call.args[1], call.args[2])
           ELSE IF compose_rews(identify(call.args[1], call.args[2].handle), call.args[2]) # None
           THEN call.result
                    = compose_rews(identify(call.args[1], call.args[2].handle),
                                   call.args[2]).children[2]
           ELSE call.result = None

\* A rewriting applied to a term that is no rewriting of its symbol: the
\* result is the right side of the identified composition.
C17_Witness ==
    /\ call.fn = "composed" /\ call.op = "compose"
    /\ compose_rews(call.args[1], call.args[2]) = None
    /\ call.result # None
    /\ call.result.type = "Term"

\* C18: a term r returned by reduce is a fixpoint: reduce_once(r) == r and
\* reduce(r) == r.
C18_ReduceFixpoint ==
    call.fn = "reduced" /\ call.result # Raised
        => /\ ObjEq(reduce_once(call.result), call.result)
           /\ ObjEq(reduce(call.result), call.result)

\* reduce returned a term other than its argument.
C18_Witness ==
    /\ call.fn = "reduced" /\ call.result # Raised
    /\ ~ObjEq(call.result, call.args[1])
    /\ call.max_steps = MaxSteps

IsFixpoint(term) == ObjEq(reduce_once(term), term)

\* reduce_once applied k times to term; a fixpoint is not applied to again,
\* reduce_once returning it as it is.
RECURSIVE reduce_once_times(_, _)
reduce_once_times(term, k) ==
    IF k = 0 \/ IsFixpoint(term) THEN term ELSE reduce_once_times(reduce_once(term), k - 1)

\* C19: reduce(term, max_steps) raises only if none of the terms reached by
\* up to max_steps applications of reduce_once is a fixpoint, and returns
\* the term reached after k <= max_steps applications when it is a fixpoint.
C19_ReduceWithinMaxSteps ==
    call.fn = "reduced"
        => \A k \in 0..call.max_steps :
               IsFixpoint(reduce_once_times(call.args[1], k))
                   => /\ call.result # Raised
                      /\ ObjEq(call.result, reduce_once_times(call.args[1], k))

\* A check call on a rule that is not itself in context[rule].
CheckedRule ==
    /\ call.fn = "checked" /\ call.args[1].type = "Rew"
    /\ ~(call.rule \in DOMAIN call.context /\ InList(call.args[1], call.context[call.rule]))

\* C20 as claimed: a rule Rew(left, symbol, right) not itself in context[rule]
\* checks iff reduce(right) checks under symbol in the context with left
\* added to context[symbol].
C20_RightReduced ==
    CheckedRule /\ ~call.result.raised
        => (call.result.ok
               <=> check(reduce(call.args[1].children[2]), call.args[1].handle,
                         dict_add(call.context, call.args[1].handle,
                                  call.args[1].children[1])).ok)

\* What check(right, symbol, context with `pattern` added to context[symbol])
\* answers, or that it raises.
Answer(r) == <<r.ok /\ ~r.raised, r.raised>>

\* C20, amended: a rule Rew(left, symbol, right) not itself in context[rule]
\* checks iff right, as written, checks under symbol in the context with
\* reduce(left) added to context[symbol]; check raises when reduce(left) does.
C20_LeftReduced ==
    CheckedRule
        => IF reduce(call.args[1].children[1]) = Raised
           THEN call.result.raised
           ELSE Answer(call.result)
                    = Answer(check(call.args[1].children[2], call.args[1].handle,
                                   dict_add(call.context, call.args[1].handle,
                                            reduce(call.args[1].children[1]))))

\* A rule that checks because its right side is its reduced left side.
C20_Witness ==
    /\ CheckedRule
    /\ call.result.ok
    /\ ~ObjEq(reduce(call.args[1].children[1]), call.args[1].children[1])
    /\ ObjEq(reduce(call.args[1].children[1]), call.args[1].children[2])
    /\ call.context = NoContext

\* C21: check leaves the context of its caller as it was: every list of the
\* context holds after the call the elements it held before.
C21_ContextUnchanged ==
    call.fn = "checked" => call.result.ctx = call.context

\* C22: a Comp(left, right) not itself in context[rule] checks iff left and
\* right each check when run separately on the same context.
C22_CompChecksBoth ==
    /\ call.fn = "checked" /\ call.args[1].type = "Comp" /\ ~call.result.raised
    /\ ~(call.rule \in DOMAIN call.context /\ InList(call.args[1], call.context[call.rule]))
    => (call.result.ok
           <=> /\ check(call.args[1].children[1], call.rule, call.context).ok
               /\ check(call.args[1].children[2], call.rule, call.context).ok)

\* Every bucket of context is contained in the bucket of larger for the same
\* symbol.
Contained(context, larger) ==
    /\ DOMAIN context \subseteq DOMAIN larger
    /\ \A k \in DOMAIN context :
           \A i \in 1..Len(context[k]) : InList(context[k][i], larger[k])

\* C23: check is monotonic in its context: a check that succeeds succeeds in
\* every context whose buckets contain those of the first.
C23_Monotonic ==
    call.fn = "checked" /\ call.result.ok /\ ~call.result.raised
        => \A larger \in CheckContexts :
               Contained(call.context, larger)
                   => check(call.args[1], call.rule, larger).ok

(***************************************************************************)
(* The goal engine, under SpecProof and SpecContext                         *)
(***************************************************************************)
\* The last step was process on a line of ProofLines with this directive.
Proved(directive) ==
    last.op = "process" /\ ProofLines[last.arg].directive = directive

Underlying(goal) == goal.data["unreduced"]

\* The open goals before the last step, and after it.
GoalsBefore == get_goals(last.pre["Goal"])

GoalsAfter == get_goals(state["Goal"])

ByRule == ProofLines[last.arg].args[1]

ByForced ==
    Len(ProofLines[last.arg].args) = 2 /\ ProofLines[last.arg].args[2].handle = "force"

\* handle_by's two matching attempts on a goal.
Matches(goal, rule) ==
    \/ check_rew_to_goal(identify(goal.children[1], GoalRew(goal)), rule).ok
    \/ goal.children[1].type = "Rew" /\ check_rew_to_goal(goal.children[1], rule).ok

\* The rule is buildable in the active context under the goal's symbol.
Buildable(goal, rule) == check(rule, GoalRew(goal), get_context(last.pre["Goal"])).ok

\* The last step was By with a rule that matches the first open goal.
ByMatched ==
    Proved("By") /\ Len(GoalsBefore) > 0 /\ Matches(GoalsBefore[1], ByRule)

ByMatch ==
    LET retried(first, second) == IF first.ok THEN first ELSE second
    IN  retried(check_rew_to_goal(identify(GoalsBefore[1].children[1],
                                           GoalRew(GoalsBefore[1])), ByRule),
                check_rew_to_goal(GoalsBefore[1].children[1], ByRule))

\* The premises By extracted, with the assignments applied.
ByPremises ==
    [i \in 1..Len(ByMatch.premises) |-> apply(ByMatch.premises[i], ByMatch.assignements)]

\* The rule was forced: handle_by took the branch that wraps it in a Goal.
ByWrapped ==
    /\ ByForced
    /\ GoalRew(GoalsBefore[1]) = NoHandle \/ ~Buildable(GoalsBefore[1], ByRule)

\* The number of Goal leaves that stand in the place of the replaced one.
ByNew == Len(ByPremises) + (IF ByWrapped THEN 1 ELSE 0)

\* after is before with nothing changed but the node at its first Goal leaf,
\* in left-to-right depth-first order.
RECURSIVE SameButFirstGoal(_, _)
SameButFirstGoal(before, after) ==
    \/ before.type = "Goal"
    \/ /\ after.type = before.type /\ after.handle = before.handle
       /\ after.data = before.data
       /\ Len(after.children) = Len(before.children)
       /\ \E k \in 1..Len(before.children) :
              /\ Len(find_goals(before.children[k])) > 0
              /\ \A j \in 1..Len(before.children) :
                     /\ j < k => Len(find_goals(before.children[j])) = 0
                     /\ j # k => after.children[j] = before.children[j]
              /\ SameButFirstGoal(before.children[k], after.children[k])

GoalInContext ==
    /\ Len(GoalsBefore) > 0
    /\ GoalRew(GoalsBefore[1]) \in DOMAIN get_context(last.pre["Goal"])
    /\ InList(Underlying(GoalsBefore[1]),
              get_context(last.pre["Goal"])[GoalRew(GoalsBefore[1])])

\* A Start/Use working term existed before the last step.
WorkingTerm == last.pre["Build"].working_term_unreduced # None

Grown(before, after) ==
    /\ DOMAIN before \subseteq DOMAIN after
    /\ \A k \in DOMAIN before :
           /\ Len(before[k]) <= Len(after[k])
           /\ SubSeq(after[k], 1, Len(before[k])) = before[k]

\* after is before with term appended to the bucket of symbol.
Appended(before, after, symbol, term) ==
    /\ DOMAIN after = DOMAIN before \cup {symbol}
    /\ \A k \in DOMAIN before : k # symbol => after[k] = before[k]
    /\ Len(after[symbol]) = (IF symbol \in DOMAIN before THEN Len(before[symbol]) ELSE 0) + 1
    /\ symbol \in DOMAIN before
           => SubSeq(after[symbol], 1, Len(before[symbol])) = before[symbol]
    /\ ObjEq(after[symbol][Len(after[symbol])], term)

\* The symbol and the term of an Axiom line.
AxiomSymbol(line) == IF Len(line.args) = 1 THEN "=>" ELSE line.args[1].handle

AxiomTerm(line) == line.args[Len(line.args)]

\* What a process call does to the generic context: an Axiom appends its term
\* to the bucket of its symbol, any other directive leaves every bucket alone.
ProcessGrows(before, after, line) ==
    /\ Grown(before, after)
    /\ IF line.directive = "Axiom"
       THEN Appended(before, after, AxiomSymbol(line), AxiomTerm(line))
       ELSE after = before

\* C29: across every process call and every undo call, each bucket of the
\* generic context has the bucket before the step as a prefix; an Axiom
\* appends its term to the bucket of its symbol, and no other directive changes
\* a bucket.
C29_ContextGrows ==
    [][/\ Grown(state["Goal"].generic_context, state'["Goal"].generic_context)
       /\ last'.op = "process"
              => ProcessGrows(state["Goal"].generic_context,
                              state'["Goal"].generic_context, ProofLines[last'.arg])]_vars

\* C29, amended: the same across the process calls alone.
C29_ProcessGrowsContext ==
    [][last'.op = "process"
           => ProcessGrows(state["Goal"].generic_context,
                           state'["Goal"].generic_context, ProofLines[last'.arg])]_vars

\* An axiom was given for <=> after one for =>, and a goal after them.
C29_Witness ==
    /\ Proved("Goal")
    /\ "<=>" \in DOMAIN state["Goal"].generic_context
    /\ Len(state["Goal"].generic_context["=>"]) = 2

\* The pipeline of a fresh engine.
FreshPipeline ==
    PipelineOf([state |-> [h \in HelperSet |-> InitialState(h)],
                stack |-> [h \in HelperSet |-> <<InitialState(h)>>],
                hooks |-> [h \in HelperSet |-> {}]],
               [h \in HelperSet |-> NoBreakpoints], << >>, NoBreakpoints)

\* The pipeline after the first k lines of scenario 3 were given, in their
\* order, to a fresh engine.
RECURSIVE ScenarioAfter(_)
ScenarioAfter(k) ==
    IF k = 0 THEN FreshPipeline
    ELSE Pipeline_process(Helpers, ScenarioAfter(k - 1),
                          ProofLines[ScenarioLines[k]].directive,
                          ProofLines[ScenarioLines[k]].args).p

\* The last step gave line k of the scenario where the lines before it had
\* brought a fresh engine.
ScenarioStep(k) ==
    /\ last.op = "process" /\ last.arg = ScenarioLines[k]
    /\ last.pre = ScenarioAfter(k - 1).w.state

Constructed(directive) ==
    last.op = "process" /\ BuildLines[last.arg].directive = directive

\* The positions of the Use line of the last step, as integers.
UsePositions ==
    [i \in 1..(Len(BuildLines[last.arg].args) - 1) |->
        extract_integer(BuildLines[last.arg].args[i + 1])]

\* wrap_rule on the rule and the positions of the Use line of the last step,
\* in the state before it.
UseWrapped == wrap_rule([state |-> last.pre], BuildLines[last.arg].args[1], UsePositions)

\* C31: Use with a non-empty position path, on a working term for which some
\* step of the path has no functorial entry or some index is out of bounds,
\* fails and leaves the working term, reduced and unreduced, as it was.
C31_UseAtPositionFails ==
    /\ Constructed("Use") /\ Len(BuildLines[last.arg].args) > 1
    /\ last.pre["Build"].working_term # None
    /\ ~UseWrapped.ok
    => /\ last.ret = "fail"
       /\ state["Build"] = last.pre["Build"]

\* C32: wrap_rule(rule, []) returns rule unchanged for every rule and in every
\* state of the engine, with or without a working term and whatever
\* functorial entries are registered.
C32_WrapNothing ==
    call.fn = "wrapped" /\ call.positions = << >>
        => call.result.ok /\ call.result.rule = call.rule

\* C32, amended: wrap_rule(rule, []) returns rule unchanged when rule is a
\* rewriting and a working term exists, and raises ValueError otherwise; Use
\* without positions gets its rule back from use_forhook in every state.
C32_WrapNothingOnWorkingTerm ==
    /\ call.fn = "wrapped" /\ call.positions = << >>
           => /\ call.result.ok
                     <=> call.state["Build"].working_term # None /\ call.rule.type = "Rew"
              /\ call.result.ok => call.result.rule = call.rule
    /\ Constructed("Use") /\ Len(BuildLines[last.arg].args) = 1
           => \A i \in 1..Len(last.trace) :
                  last.trace[i].name = "FunctorialHelper.use_forhook"
                      => last.trace[i].output = last.trace[i].input

\* wrap_rule(rule, []) returned on a working term with a functorial entry
\* registered.
C32_Witness ==
    /\ call.fn = "wrapped" /\ call.positions = << >> /\ call.result.ok
    /\ call.state["Build"].working_term # None
    /\ call.state["Functorial"] # << >>

(***************************************************************************)
(* The conversions of the alias and the Peano helper, under SpecConversions *)
(***************************************************************************)
\* C33: for every alias table and every term t, restore_aliases(
\* apply_aliases(t)) == t; a tagged node whose structure still equals the
\* tagged definition is collapsed to the bare term of the alias name, and one
\* whose structure has changed is left expanded.
C33_AliasRoundTrip ==
    /\ call.fn = "alias" => ObjEq(call.restored, call.term)
    /\ call.fn = "changed" /\ has_alias(call.table, call.name)
           => IF ObjEq(call.changed, get_alias(call.table, call.name))
              THEN ObjEq(call.restored, Term(call.name, << >>))
              ELSE /\ call.restored.type = call.changed.type
                   /\ call.restored.handle = call.changed.handle
                   /\ Len(call.restored.children) = Len(call.changed.children)

\* A term in which two aliases were expanded, restored.
C33_Witness ==
    /\ call.fn = "alias" /\ Len(call.table) = 2
    /\ call.term.type = "Rew"
    /\ ~ObjEq(call.applied.children[1], call.term.children[1])
    /\ ~ObjEq(call.applied.children[2], call.term.children[2])

\* integer_to_peano maps the literal of n to S applied n times to zero.
LiteralEncoded ==
    /\ ObjEq(call.literal, peano(call.n))
    /\ ObjEq(call.encoded, Around(call.context, peano(call.n)))

\* C34: for every n of a bounded range, integer_to_peano maps the literal of n
\* to S applied n times to zero and peano_to_integer maps that term back to
\* the literal of n, also when the literal is a subterm of a larger Object.
C34_PeanoRoundTrip ==
    call.fn = "peano"
        => /\ LiteralEncoded
           /\ ObjEq(call.decoded, Around(call.context, Literal(call.n)))

\* C34, amended: the same, except for a literal under a chain of terms named
\* S with one argument: S applied k times to the literal of n comes back as
\* the literal of n + k.
C34_PeanoRoundTripButUnderS ==
    call.fn = "peano"
        => /\ LiteralEncoded
           /\ ObjEq(call.decoded,
                    IF call.context = "S" THEN Literal(call.n + 1)
                    ELSE IF call.context = "SS" THEN Literal(call.n + 2)
                    ELSE Around(call.context, Literal(call.n)))

\* A literal of two digits converted in a rewriting, where it occurs twice.
C34_Witness ==
    /\ call.fn = "peano" /\ call.n > 9 /\ call.context = "Rew"
    /\ ObjEq(call.decoded.children[1], Literal(call.n))

(***************************************************************************)
(* User-triggered conditions, under SpecLines.                              *)
(***************************************************************************)
Guarded == {"Intro", "By", "Done", "Status", "Use", "Check", "Clear"}

NeedGoal == {"Intro", "By", "Done"}

\* C35: Intro, By, Done, Status, Use, Check and Clear never raise out of
\* process; with no open goal, Intro, By and Done return success = false with
\* a diagnostic in the result.
C35_NeverRaises ==
    (last.op = "process" /\ Inputs[last.arg].directive \in Guarded)
        => /\ last.ret # "raise"
           /\ (Inputs[last.arg].directive \in NeedGoal /\ get_goal(last.pre) = None)
                  => /\ last.ret = "fail"
                     /\ Len(last.results) > 0
                     /\ "result" \in DOMAIN last.results[1].data

(***************************************************************************)
(* The forhooks of the alias helper, under SpecAlias.                       *)
(***************************************************************************)
Named == {"Axiom", "Functorial"}

SpecificForhook(directive) ==
    IF directive = "Axiom" THEN "AliasHelper.axiom_forhook"
    ELSE "AliasHelper.functorial_forhook"

\* The forhooks of the alias helper among the calls of the last line.
AliasForhooks == SelectSeq(last.trace, LAMBDA c : c.kind = "forhook" /\ c.helper = "Alias")

\* The leading name of the line, consumed by the specific forhook.
LeadingName ==
    LET args == AliasLines[last.arg].args
    IN  Len(args) >= 2 /\ is_alphanumeric_name(args[1])

ReadOnly == {"Status", "Check", "Reduce"}

\* C37: processing Status, Check or Reduce leaves every helper's current
\* state, snapshot stack and breakpoint table as they were, whether the line
\* succeeds or fails.
C37_ReadOnly ==
    [][(last'.op = "process" /\ Inputs[last'.arg].directive \in ReadOnly)
           => UNCHANGED <<state, state_stack, helper_breakpoints>>]_vars

\* Check has failed with a goal set and a snapshot above the initial one.
C37_Witness ==
    /\ last.op = "process"
    /\ Inputs[last.arg].directive = "Check"
    /\ last.ret = "fail"
    /\ Len(state_stack["Goal"]) > 1

(***************************************************************************)
(* Rollback with undo interleaved, under SpecMarks.                         *)
(***************************************************************************)
\* C38: whatever process and undo calls were made since breakpoint(name), a
\* rollback(name) that returns true leaves every helper's state equal to the
\* state it had when breakpoint(name) was called.
C38_RollbackRestoresThroughUndo ==
    [][(last'.op = "rollback" /\ last'.ret = "ok" /\ call.fn = "marked"
            /\ last'.arg = call.name)
          => state' = call.state]_vars

(***************************************************************************)
(* The helpers' snapshot stacks, under SpecMarks.                           *)
(***************************************************************************)
\* C39: after any sequence of process (set_state), undo, breakpoint and
\* rollback calls, every helper's snapshot stack is non-empty, its bottom
\* element is the initial state given at construction, and the helper's
\* current state is the top element of the stack.
C39_HistoryStack ==
    \A h \in HelperSet :
        /\ Len(state_stack[h]) >= 1
        /\ state_stack[h][1] = InitialState(h)
        /\ state[h] = state_stack[h][Len(state_stack[h])]

\* A rollback has cut a helper's stack down to a snapshot above the initial
\* one.
C39_Witness ==
    /\ last.op = "rollback"
    /\ last.ret = "ok"
    /\ last.moved
    /\ \E h \in HelperSet : Len(state_stack[h]) > 1

(***************************************************************************)
(* The build helper's state, under SpecBuild.                               *)
(***************************************************************************)
\* C40: after any sequence of Start, Use and Clear lines and of undo calls,
\* working_term and working_term_unreduced are both absent or both present,
\* and when present working_term equals reduce(working_term_unreduced); the
\* same holds of every snapshot a rollback can bring back.
Coherent(build) ==
    /\ (build.working_term = None) <=> (build.working_term_unreduced = None)
    /\ build.working_term # None
           => ObjEq(build.working_term, reduce(build.working_term_unreduced))

C40_BuildCoherent ==
    /\ Coherent(state["Build"])
    /\ \A i \in 1..Len(state_stack["Build"]) : Coherent(state_stack["Build"][i])

\* A second rule has been used on the working term.
C40_Witness ==
    /\ last.op = "process"
    /\ BuildLines[last.arg].directive = "Use"
    /\ last.ret = "ok"
    /\ state["Build"].working_term # None
    /\ state["Build"].working_term_unreduced.type = "Comp"
    /\ state["Build"].working_term_unreduced.children[1].type = "Comp"

====
